---- MODULE Spec2Model ----
(***************************************************************************)
(* A model of the remux job pipeline: the job lifecycle of the domain      *)
(* model, the validators, the mkvmerge command builder, the process        *)
(* runner, the single-job remux service and the batch service.             *)
(***************************************************************************)
EXTENDS Integers, Sequences, FiniteSets, TLC

VARIABLES
    jobs,       \* SpecJob: the two job objects driven through their public methods
    job,        \* the RemuxJob handed to the builder, the validator or the service
    fs,         \* the filesystem: [files: regular files, dirs: directories]
    cmd,        \* the argument list build_command returned (<<>> before the call)
    verdict,    \* SpecValidate: None before validate_remux_job, then "ok" or its error
    svc,        \* RemuxService.remux: [pc, result]
    proc,       \* the mux subprocess: [state, lines, returncode, produced: its last progress value]
    worker,     \* RemuxWorker: [pc, is_cancelled, progress, finished]
    env,        \* the mux tool: [tool_installed, progress_on: the stream of its progress lines]
    hist,       \* observation: [cancelled_while_running]
    batch,      \* BatchService.process_episodes: its arguments, locals and return value
    matcher     \* EpisodeMatcher: the file names it is given and what it returns

vars == <<jobs, job, fs, cmd, verdict, svc, proc, worker, env, hist, batch, matcher>>

\* The variables of a running service, untouched by the pure functions.
runVars == <<svc, proc, worker, env, hist, batch, matcher>>

\* What the calls on the two job objects of SpecJob leave alone.
notJobs == <<job, fs, cmd, verdict, runVars>>

\* What a call of build_command leaves alone.
notCmd == <<jobs, job, fs, verdict, runVars>>

\* What a call of validate_remux_job cannot touch.
notValidate == <<jobs, cmd, runVars>>

----------------------------------------------------------------------------
(* core/domain/enums.py and the shared None value *)

None == "None"

JobStatus == {"PENDING", "RUNNING", "COMPLETED", "FAILED", "CANCELLED"}

----------------------------------------------------------------------------
(* core/domain/models.py: the lifecycle methods, identical in RemuxJob and *)
(* DualVideoRemuxJob.  A timestamp is None or "now".                       *)

Max(a, b) == IF a >= b THEN a ELSE b

Min(a, b) == IF a <= b THEN a ELSE b

\* A start() that honours the documented guard (Pending only).
JobStartGuarded(j) ==
    IF j.status = "PENDING"
    THEN [j EXCEPT !.status = "RUNNING", !.started_at = "now", !.progress = 0]
    ELSE j

JobStart(j) ==
    [j EXCEPT !.status = "RUNNING", !.started_at = "now", !.progress = 0]

\* A complete() that forgets to set the status.
JobCompleteNoStatus(j) ==
    [j EXCEPT !.completed_at = "now", !.progress = 100]

JobComplete(j) ==
    [j EXCEPT !.status = "COMPLETED", !.completed_at = "now", !.progress = 100]

\* A fail() that drops the reason.
JobFailNoReason(j, error_message) ==
    [j EXCEPT !.status = "FAILED", !.completed_at = "now"]

JobFail(j, error_message) ==
    [j EXCEPT !.status = "FAILED", !.completed_at = "now",
              !.error_message = error_message]

JobUpdateProgress(j, progress) ==
    [j EXCEPT !.progress = Max(0, Min(100, progress))]

\* The lifecycle fields of a freshly constructed job (dataclass defaults).
NewJobState ==
    [status |-> "PENDING", progress |-> 0, error_message |-> None,
     started_at |-> None, completed_at |-> None]

\* A result variable that holds no RemuxResult (yet).
NoResult == [none |-> TRUE]

\* process_episodes has not been called.
NoBatch == [pc |-> "idle"]

\* The episode matcher has not been called.
NoMatcher == [pc |-> "idle"]

\* Nothing is running: no remux call, no subprocess, no worker, no batch.
RunIdle ==
    /\ svc = [pc |-> "idle", result |-> NoResult]
    /\ proc = [state |-> "none", lines |-> 0, returncode |-> 0, produced |-> 0]
    /\ worker = [pc |-> "idle", is_cancelled |-> FALSE, progress |-> 0,
                 finished |-> None]
    /\ env = [tool_installed |-> TRUE, progress_on |-> "stderr"]
    /\ hist = [cancelled_while_running |-> FALSE]
    /\ batch = NoBatch
    /\ matcher = NoMatcher

----------------------------------------------------------------------------
(* core/engines/mkvmerge_engine.py: the command builder.                   *)
(* An argument is a string.  Three shapes are kept apart by how the code   *)
(* produces them: a literal or str(path); f"0:{int}"; f"0:{str}".          *)

Str(s) == [t |-> "str", s |-> s, n |-> 0]

Fmt0Int(n) == [t |-> "0:%d", s |-> "", n |-> n]

Fmt0Str(s) == [t |-> "0:%s", s |-> s, n |-> 0]

\* Python truthiness of an Optional[str] / Optional[Path].
Truthy(x) == x /= None /\ x /= ""

PathExists(f, p) == p \in f.files \/ p \in f.dirs

executable_path == "mkvmerge"

\* A resolver that never falls back to the title.
GetTrackFileNoFallback(track, f) ==
    IF Truthy(track.file_path) THEN track.file_path ELSE None

GetTrackFile(track, f) ==
    IF Truthy(track.file_path)
    THEN track.file_path
    ELSE IF Truthy(track.title) /\ PathExists(f, track.title)
         THEN track.title
         ELSE None

\* A video input that lets include_original_subtitles decide alone.
AddVideoInputNoOverride(j) ==
    << Str("--audio-tracks"),
       Str(IF j.include_original_audio THEN "all" ELSE "none"),
       Str("--subtitle-tracks"),
       Str(IF j.include_original_subtitles THEN "all" ELSE "none"),
       Str(j.video_file) >>

AddVideoInput(j) ==
    LET audio_tracks == IF j.include_original_audio THEN "all" ELSE "none"
        subtitle_tracks ==
            IF j.include_original_subtitles /\ ~j.overwrite_source_subtitles
            THEN "all" ELSE "none"
    IN << Str("--audio-tracks"), Str(audio_tracks),
          Str("--subtitle-tracks"), Str(subtitle_tracks),
          Str(j.video_file) >>

\* An audio group that emits the language before the sync offset.
AddAudioTrackLanguageFirst(track, f) ==
    LET audio_file == GetTrackFile(track, f) IN
    IF audio_file = None THEN <<>>
    ELSE << Str("--language"), Fmt0Str(track.language) >>
         \o (IF track.offset_ms /= 0
             THEN << Str("--sync"), Fmt0Int(track.offset_ms) >> ELSE <<>>)
         \o (IF Truthy(track.title)
             THEN << Str("--track-name"), Fmt0Str(track.title) >> ELSE <<>>)
         \o (IF track.is_default
             THEN << Str("--default-track"), Str("0:yes") >> ELSE <<>>)
         \o << Str(audio_file) >>

AddAudioTrack(track, f) ==
    LET audio_file == GetTrackFile(track, f) IN
    IF audio_file = None THEN <<>>
    ELSE (IF track.offset_ms /= 0
          THEN << Str("--sync"), Fmt0Int(track.offset_ms) >> ELSE <<>>)
         \o << Str("--language"), Fmt0Str(track.language) >>
         \o (IF Truthy(track.title)
             THEN << Str("--track-name"), Fmt0Str(track.title) >> ELSE <<>>)
         \o (IF track.is_default
             THEN << Str("--default-track"), Str("0:yes") >> ELSE <<>>)
         \o << Str(audio_file) >>

\* A subtitle group that appends the default flag after the file.
AddSubtitleTrackDefaultLast(track, f) ==
    LET subtitle_file == GetTrackFile(track, f) IN
    IF subtitle_file = None THEN <<>>
    ELSE (IF track.offset_ms /= 0
          THEN << Str("--sync"), Fmt0Int(track.offset_ms) >> ELSE <<>>)
         \o << Str("--language"), Fmt0Str(track.language) >>
         \o (IF Truthy(track.title)
             THEN << Str("--track-name"), Fmt0Str(track.title) >> ELSE <<>>)
         \o (IF track.is_forced
             THEN << Str("--forced-display-flag"), Str("0:1") >> ELSE <<>>)
         \o << Str(subtitle_file) >>
         \o (IF track.is_default
             THEN << Str("--default-track"), Str("0:yes") >> ELSE <<>>)

AddSubtitleTrack(track, f) ==
    LET subtitle_file == GetTrackFile(track, f) IN
    IF subtitle_file = None THEN <<>>
    ELSE (IF track.offset_ms /= 0
          THEN << Str("--sync"), Fmt0Int(track.offset_ms) >> ELSE <<>>)
         \o << Str("--language"), Fmt0Str(track.language) >>
         \o (IF Truthy(track.title)
             THEN << Str("--track-name"), Fmt0Str(track.title) >> ELSE <<>>)
         \o (IF track.is_forced
             THEN << Str("--forced-display-flag"), Str("0:1") >> ELSE <<>>)
         \o (IF track.is_default
             THEN << Str("--default-track"), Str("0:yes") >> ELSE <<>>)
         \o << Str(subtitle_file) >>

RECURSIVE AddAudioTracks(_, _)
AddAudioTracks(tracks, f) ==
    IF tracks = <<>> THEN <<>>
    ELSE AddAudioTrack(Head(tracks), f) \o AddAudioTracks(Tail(tracks), f)

RECURSIVE AddSubtitleTracks(_, _)
AddSubtitleTracks(tracks, f) ==
    IF tracks = <<>> THEN <<>>
    ELSE AddSubtitleTrack(Head(tracks), f) \o AddSubtitleTracks(Tail(tracks), f)

build_command(j, f) ==
    << Str(executable_path), Str("-o"), Str(j.output_file) >>
    \o AddVideoInput(j)
    \o AddAudioTracks(j.audio_tracks, f)
    \o AddSubtitleTracks(j.subtitle_tracks, f)

----------------------------------------------------------------------------
(* core/utils/file_utils.py and pathlib, over the paths the model uses.    *)

VIDEO_EXTENSIONS == {".mkv", ".mp4", ".avi", ".mov", ".webm", ".flv", ".m4v"}

\* The files of the episodes handed to the batch, and pathlib's `/`.
NumEpisodes == 5

EpisodeNumbers == 1..NumEpisodes

EpisodeVideo(n) == "in/ep" \o ToString(n) \o ".mkv"

EpisodeAudio(n) == "in/ep" \o ToString(n) \o ".mka"

JoinPath(dir, name) == dir \o "/" \o name

\* format(ep, "02d")
Fmt02d(n) == IF n < 10 THEN "0" \o ToString(n) ELSE ToString(n)

DefaultPattern == "Episode_{ep:02d}_REMUX.mkv"

\* output_pattern.format(ep=number): a pattern naming a field other than
\* ep raises KeyError.
FormatPattern(pattern, ep) ==
    IF pattern = DefaultPattern
    THEN [raised |-> FALSE, name |-> "Episode_" \o Fmt02d(ep) \o "_REMUX.mkv"]
    ELSE [raised |-> TRUE, name |-> None]

EpisodeOutputs ==
    { JoinPath("out", FormatPattern(DefaultPattern, n).name) : n \in EpisodeNumbers }

\* Path.suffix.lower()
get_file_extension(p) ==
    CASE p \in {"in/v.mkv", "in/./v.mkv", "in/missing.mkv", "out/o.mkv",
                "new/o.mkv", "ro/new/o.mkv", "v.mkv", "out.mkv"} -> ".mkv"
      [] p \in {"in/a1.mka", "a1.mka", "a2.mka", "old.mka"} -> ".mka"
      [] p \in {"in/s1.ass", "s1.ass", "s2.ass", "old.ass"} -> ".ass"
      [] p = "in/notes.txt" -> ".txt"
      [] p \in { EpisodeVideo(n) : n \in EpisodeNumbers } \cup EpisodeOutputs -> ".mkv"
      [] p \in { EpisodeAudio(n) : n \in EpisodeNumbers } -> ".mka"
      [] OTHER -> ""

is_video_file(p) == get_file_extension(p) \in VIDEO_EXTENSIONS

\* Path.parent
Parent(p) ==
    CASE p \in {"in/v.mkv", "in/./v.mkv", "in/missing.mkv",
                "in/a1.mka", "in/s1.ass", "in/notes.txt"} -> "in"
      [] p = "out/o.mkv" -> "out"
      [] p = "new/o.mkv" -> "new"
      [] p = "ro/new/o.mkv" -> "ro/new"
      [] p = "ro/new" -> "ro"
      [] p \in { EpisodeVideo(n) : n \in EpisodeNumbers }
              \cup { EpisodeAudio(n) : n \in EpisodeNumbers } -> "in"
      [] p \in EpisodeOutputs -> "out"
      [] OTHER -> "."

\* Path.resolve(): the absolute, normalised path.
Resolve(p) == IF p = "in/./v.mkv" THEN "in/v.mkv" ELSE p

IsFile(f, p) == Resolve(p) \in f.files

IsDir(f, p) == Resolve(p) \in f.dirs

Exists(f, p) == IsFile(f, p) \/ IsDir(f, p)

\* Path.mkdir(parents=True, exist_ok=True): the directory and its missing
\* ancestors are created unless one would lie in a read-only directory.
RECURSIVE Mkdir(_, _)
Mkdir(f, d) ==
    IF IsDir(f, d) THEN [ok |-> TRUE, fs |-> f]
    ELSE IF IsFile(f, d) THEN [ok |-> FALSE, fs |-> f]
    ELSE LET up == Mkdir(f, Parent(d)) IN
         IF ~up.ok \/ Parent(d) \in up.fs.readonly
         THEN [ok |-> FALSE, fs |-> up.fs]
         ELSE [ok |-> TRUE, fs |-> [up.fs EXCEPT !.dirs = @ \cup {d}]]

----------------------------------------------------------------------------
(* core/utils/validators.py.  A validator yields None or the text of the   *)
(* ValidationError it raises (without the interpolated values).            *)

MaxOffsetMs == 3600000

Abs(x) == IF x < 0 THEN -x ELSE x

validate_file_exists(f, p, file_type) ==
    IF ~Exists(f, p) THEN "El archivo no existe"
    ELSE IF ~IsFile(f, p) THEN "La ruta no es un archivo"
    ELSE None

validate_video_file(f, p) ==
    LET e == validate_file_exists(f, p, "archivo de video") IN
    IF e /= None THEN e
    ELSE IF ~is_video_file(p)
         THEN "El archivo no tiene una extension de video valida"
         ELSE None

\* [error, fs]: the parent directory may have been created.
validate_output_path(f, p) ==
    LET made == IF ~Exists(f, Parent(p)) THEN Mkdir(f, Parent(p))
                ELSE [ok |-> TRUE, fs |-> f]
    IN IF ~made.ok
       THEN [error |-> "No se puede crear el directorio de salida",
             fs |-> made.fs]
       ELSE IF Exists(made.fs, p) /\ IsDir(made.fs, p)
            THEN [error |-> "La ruta de salida es un directorio",
                  fs |-> made.fs]
            ELSE [error |-> None, fs |-> made.fs]

OffsetError == "El offset de la pista es demasiado grande"

DuplicateError == "Hay pistas con IDs duplicados"

\* An offset check that also rejects the limit itself.
validate_tracks_strict(tracks) ==
    IF tracks = <<>> THEN None
    ELSE IF Len(tracks) /= Cardinality({ tracks[i].id : i \in 1..Len(tracks) })
         THEN DuplicateError
         ELSE IF \E i \in 1..Len(tracks) : Abs(tracks[i].offset_ms) >= MaxOffsetMs
              THEN OffsetError
              ELSE None

validate_tracks(tracks) ==
    IF tracks = <<>> THEN None
    ELSE IF Len(tracks) /= Cardinality({ tracks[i].id : i \in 1..Len(tracks) })
         THEN DuplicateError
         ELSE IF \E i \in 1..Len(tracks) : Abs(tracks[i].offset_ms) > MaxOffsetMs
              THEN OffsetError
              ELSE None

\* [error, fs]
validate_remux_job(j, f) ==
    LET ev == validate_video_file(f, j.video_file)
        out == validate_output_path(f, j.output_file)
        ea == validate_tracks(j.audio_tracks)
        es == validate_tracks(j.subtitle_tracks)
    IN IF ev /= None THEN [error |-> ev, fs |-> f]
       ELSE IF out.error /= None THEN out
       ELSE IF Resolve(j.output_file) = Resolve(j.video_file)
            THEN [error |-> "El archivo de salida no puede ser el mismo que el de entrada",
                  fs |-> out.fs]
       ELSE IF ea /= None THEN [error |-> ea, fs |-> out.fs]
       ELSE IF es /= None THEN [error |-> es, fs |-> out.fs]
       ELSE IF j.audio_tracks = <<>> /\ j.subtitle_tracks = <<>>
               /\ ~j.include_original_audio /\ ~j.include_original_subtitles
            THEN [error |-> "No hay pistas para incluir en el remuxeo",
                  fs |-> out.fs]
       ELSE [error |-> None, fs |-> out.fs]

----------------------------------------------------------------------------
(* SpecJob: any sequence of method calls on a RemuxJob and on a            *)
(* DualVideoRemuxJob.                                                      *)

JobKinds == {"RemuxJob", "DualVideoRemuxJob"}

FailReasons == {"Error de validacion", "Error inesperado"}

ProgressInputs == {-1, 0, 50, 100, 101}

JobInit ==
    /\ jobs = [k \in JobKinds |-> NewJobState]
    /\ job = None
    /\ fs = None
    /\ cmd = <<>>
    /\ verdict = None
    /\ RunIdle

CallStart(k) ==
    /\ jobs' = [jobs EXCEPT ![k] = JobStart(jobs[k])]
    /\ UNCHANGED notJobs

CallComplete(k) ==
    /\ jobs' = [jobs EXCEPT ![k] = JobComplete(jobs[k])]
    /\ UNCHANGED notJobs

CallFail(k) ==
    /\ \E r \in FailReasons : jobs' = [jobs EXCEPT ![k] = JobFail(jobs[k], r)]
    /\ UNCHANGED notJobs

CallUpdateProgress(k) ==
    /\ \E p \in ProgressInputs :
          jobs' = [jobs EXCEPT ![k] = JobUpdateProgress(jobs[k], p)]
    /\ UNCHANGED notJobs

JobNext ==
    \E k \in JobKinds :
        \/ CallStart(k)
        \/ CallComplete(k)
        \/ CallFail(k)
        \/ CallUpdateProgress(k)

SpecJob == JobInit /\ [][JobNext]_vars

----------------------------------------------------------------------------
(* C1: under any sequence of start(), complete() and fail(reason) calls    *)
(* the status of a RemuxJob and of a DualVideoRemuxJob changes only along  *)
(* Pending->Running, Running->Completed, Pending->Failed, Running->Failed; *)
(* start() on a job that is not Pending and complete() on a job that is    *)
(* not Running leave the status unchanged.                                 *)

AllowedTransitions ==
    { <<"PENDING", "RUNNING">>, <<"RUNNING", "COMPLETED">>,
      <<"PENDING", "FAILED">>, <<"RUNNING", "FAILED">> }

C1_StatusFollowsStateMachine ==
    [][\A k \in JobKinds :
          jobs'[k].status /= jobs[k].status
            => <<jobs[k].status, jobs'[k].status>> \in AllowedTransitions]_vars

----------------------------------------------------------------------------
(* SpecBuild: build_command applied to a job drawn from a bounded set.     *)

MaxAudioTracks == 2

MaxSubtitleTracks == 2

SeqsUpTo(S, n) == UNION { [1..k -> S] : k \in 0..n }

Track(id, type, language, title, offset_ms, is_default, is_forced, file_path) ==
    [id |-> id, type |-> type, language |-> language, title |-> title,
     offset_ms |-> offset_ms, is_default |-> is_default,
     is_forced |-> is_forced, file_path |-> file_path]

RemuxJob(video_file, output_file, audio_tracks, subtitle_tracks, overwrite_source_subtitles, include_original_audio, include_original_subtitles) ==
    [video_file |-> video_file, output_file |-> output_file,
     audio_tracks |-> audio_tracks, subtitle_tracks |-> subtitle_tracks,
     overwrite_source_subtitles |-> overwrite_source_subtitles,
     include_original_audio |-> include_original_audio,
     include_original_subtitles |-> include_original_subtitles,
     status |-> "PENDING", progress |-> 0, error_message |-> None,
     started_at |-> None, completed_at |-> None]

\* Extra audio tracks: with and without offset, title and default flag; one
\* with no file and a title that is no file; one found through its title.
BuildAudioTracks ==
    { Track(0, "AUDIO", "es-419", None, 500, TRUE, FALSE, "a1.mka"),
      Track(1, "AUDIO", "ja", "Japones", 0, FALSE, FALSE, "a2.mka"),
      Track(2, "AUDIO", "es-419", "", -250, FALSE, FALSE, "a1.mka"),
      Track(3, "AUDIO", "und", "Latino", 500, TRUE, FALSE, None),
      Track(4, "AUDIO", "es-419", "old.mka", -250, TRUE, FALSE, None) }

BuildSubtitleTracks ==
    { Track(0, "SUBTITLE", "es-419", "Latino", 0, TRUE, FALSE, "s1.ass"),
      Track(1, "SUBTITLE", "es-419", "Letreros", 300, FALSE, TRUE, "s2.ass"),
      Track(2, "SUBTITLE", "en", None, -300, TRUE, TRUE, "s1.ass"),
      Track(3, "SUBTITLE", "und", None, 300, TRUE, TRUE, None),
      Track(4, "SUBTITLE", "es-419", "old.ass", 0, FALSE, FALSE, None) }

BuildFs ==
    [files |-> {"v.mkv", "a1.mka", "a2.mka", "s1.ass", "s2.ass",
                "old.mka", "old.ass"},
     dirs |-> {"."}]

BuildJobs ==
    { RemuxJob("v.mkv", "out.mkv", at, st, ow, ia, is) :
        at \in SeqsUpTo(BuildAudioTracks, MaxAudioTracks),
        st \in SeqsUpTo(BuildSubtitleTracks, MaxSubtitleTracks),
        ow \in BOOLEAN, ia \in BOOLEAN, is \in BOOLEAN }

BuildInit ==
    /\ jobs = [k \in JobKinds |-> NewJobState]
    /\ job \in BuildJobs
    /\ fs = BuildFs
    /\ cmd = <<>>
    /\ verdict = None
    /\ RunIdle

Build ==
    /\ cmd = <<>>
    /\ verdict = None
    /\ RunIdle
    /\ cmd' = build_command(job, fs)
    /\ UNCHANGED notCmd

BuildNext == Build

SpecBuild == BuildInit /\ [][BuildNext]_vars

----------------------------------------------------------------------------
(* How the mux tool reads an argument list: every option takes one value   *)
(* and applies to the next file argument.                                  *)

OptionNames ==
    { "--audio-tracks", "--subtitle-tracks", "--sync", "--language",
      "--track-name", "--default-track", "--forced-display-flag" }

IsOption(a) == a.t = "str" /\ a.s \in OptionNames

RECURSIVE ParseInputs(_, _, _)
ParseInputs(args, pending, groups) ==
    IF args = <<>>
    THEN [groups |-> groups, dangling |-> pending]
    ELSE IF IsOption(Head(args))
         THEN IF Len(args) = 1
              THEN [groups |-> groups,
                    dangling |-> Append(pending, <<Head(args), Str("")>>)]
              ELSE ParseInputs(SubSeq(args, 3, Len(args)),
                               Append(pending, <<args[1], args[2]>>), groups)
         ELSE ParseInputs(Tail(args), <<>>,
                          Append(groups, [opts |-> pending, path |-> Head(args)]))

Inputs(c) == ParseInputs(SubSeq(c, 4, Len(c)), <<>>, <<>>)

Range(q) == { q[i] : i \in 1..Len(q) }

ResolvableTracks(j, f) ==
    SelectSeq(j.audio_tracks \o j.subtitle_tracks,
              LAMBDA t : GetTrackFile(t, f) /= None)

\* The modifiers a track asks for, as option/value pairs.
TrackModifiers(t) ==
    (IF t.offset_ms /= 0
     THEN { <<Str("--sync"), Fmt0Int(t.offset_ms)>> } ELSE {})
    \cup { <<Str("--language"), Fmt0Str(t.language)>> }
    \cup (IF Truthy(t.title)
          THEN { <<Str("--track-name"), Fmt0Str(t.title)>> } ELSE {})
    \cup (IF t.is_default
          THEN { <<Str("--default-track"), Str("0:yes")>> } ELSE {})
    \cup (IF t.type = "SUBTITLE" /\ t.is_forced
          THEN { <<Str("--forced-display-flag"), Str("0:1")>> } ELSE {})

(* C6: in the argument list of any RemuxJob every modifier of an input     *)
(* lies after the previous input's path and before that input's own path:  *)
(* read as the tool reads it, the list has no option left after the last   *)
(* file, its first input is the source video with only the two inclusion   *)
(* options, and its further inputs are exactly the tracks with a           *)
(* resolvable file, in order, each carrying exactly its own modifiers; a   *)
(* track with no resolvable file contributes nothing.                      *)
C6_ModifiersPrecedeOwnPath ==
    cmd /= <<>> =>
        LET p == Inputs(cmd)
            res == ResolvableTracks(job, fs)
        IN /\ cmd[2] = Str("-o") /\ cmd[3] = Str(job.output_file)
           /\ p.dangling = <<>>
           /\ Len(p.groups) = 1 + Len(res)
           /\ p.groups[1].path = Str(job.video_file)
           /\ { o[1].s : o \in Range(p.groups[1].opts) }
                 = {"--audio-tracks", "--subtitle-tracks"}
           /\ \A k \in 1..Len(res) :
                 /\ p.groups[k + 1].path = Str(GetTrackFile(res[k], fs))
                 /\ Range(p.groups[k + 1].opts) = TrackModifiers(res[k])
                 /\ Len(p.groups[k + 1].opts)
                       = Cardinality(TrackModifiers(res[k]))

\* A command was built for a job with an unresolvable track in front of a
\* resolvable subtitle that carries sync, forced and default modifiers.
C6_Witness ==
    /\ cmd /= <<>>
    /\ Len(job.audio_tracks) = 1
    /\ GetTrackFile(job.audio_tracks[1], fs) = None
    /\ Len(job.subtitle_tracks) = 2
    /\ job.subtitle_tracks[1].id = 2
    /\ job.subtitle_tracks[2].id = 1

(* C7: every extra audio track with a resolvable file yields exactly the   *)
(* group: --sync 0:<offset_ms> iff the offset is not 0, the language flag, *)
(* the title flag iff the title is non-empty, the default-track flag iff   *)
(* is_default, then the file path; and for include_original_audio = false  *)
(* with the one audio track (offset 500, es-419, default) the list holds,  *)
(* in order, the exclude-audio flag, the video path, --sync 0:500, the     *)
(* language flag, the default-track flag and the audio path.               *)
ExpectedAudioGroup(t) ==
    (IF t.offset_ms /= 0
     THEN << <<Str("--sync"), Fmt0Int(t.offset_ms)>> >> ELSE <<>>)
    \o << <<Str("--language"), Fmt0Str(t.language)>> >>
    \o (IF t.title /= None /\ t.title /= ""
        THEN << <<Str("--track-name"), Fmt0Str(t.title)>> >> ELSE <<>>)
    \o (IF t.is_default
        THEN << <<Str("--default-track"), Str("0:yes")>> >> ELSE <<>>)

ExampleAudioTrack ==
    Track(0, "AUDIO", "es-419", None, 500, TRUE, FALSE, "a1.mka")

IsExampleJob ==
    /\ job.audio_tracks = << ExampleAudioTrack >>
    /\ job.subtitle_tracks = <<>>
    /\ ~job.include_original_audio

VideoOption(c, name) ==
    LET opts == Inputs(c).groups[1].opts
    IN { o[2].s : o \in { x \in Range(opts) : x[1] = Str(name) } }

C8_SourceInclusionFlags ==
    cmd /= <<>> =>
        /\ VideoOption(cmd, "--subtitle-tracks") =
              IF job.overwrite_source_subtitles
                 \/ ~job.include_original_subtitles
              THEN {"none"} ELSE {"all"}
        /\ VideoOption(cmd, "--audio-tracks") =
              IF ~job.include_original_audio THEN {"none"} ELSE {"all"}

\* A command was built with the override set although the original
\* subtitles were asked for.
C8_Witness ==
    /\ cmd /= <<>>
    /\ job.overwrite_source_subtitles
    /\ job.include_original_subtitles
    /\ job.include_original_audio

----------------------------------------------------------------------------
(* SpecValidate: validate_remux_job applied to a job drawn from a bounded  *)
(* set, on a filesystem with an existing input directory, an existing and  *)
(* a missing output directory and a read-only directory.                   *)

MaxValAudioTracks == 2

MaxValSubtitleTracks == 1

ValidateFs ==
    [files |-> {"in/v.mkv", "in/a1.mka", "in/s1.ass", "in/notes.txt"},
     dirs |-> {".", "in", "out", "outdir", "ro"},
     readonly |-> {"ro"}]

ValAudioTracks ==
    { Track(0, "AUDIO", "es-419", "Latino", 0, TRUE, FALSE, "in/a1.mka"),
      Track(1, "AUDIO", "es-419", "Latino", 3600000, FALSE, FALSE, "in/a1.mka"),
      Track(0, "AUDIO", "ja", None, -3600000, FALSE, FALSE, "in/a1.mka"),
      Track(1, "AUDIO", "ja", None, 3600001, FALSE, FALSE, "in/a1.mka"),
      Track(2, "AUDIO", "ja", None, -3600001, FALSE, FALSE, "in/a1.mka") }

ValSubtitleTracks ==
    { Track(0, "SUBTITLE", "es-419", "Latino", 0, TRUE, FALSE, "in/s1.ass"),
      Track(0, "SUBTITLE", "es-419", "Letreros", 3600001, FALSE, TRUE, "in/s1.ass"),
      Track(1, "SUBTITLE", "es-419", None, -3600000, FALSE, FALSE, "in/s1.ass") }

ValVideoFiles == {"in/v.mkv", "in/missing.mkv", "in/notes.txt", "in"}

ValOutputFiles ==
    {"out/o.mkv", "in/v.mkv", "in/./v.mkv", "in/a1.mka", "in/s1.ass",
     "new/o.mkv", "ro/new/o.mkv", "outdir"}

ValidateJobs ==
    { RemuxJob(v, o, at, st, FALSE, ia, is) :
        v \in ValVideoFiles, o \in ValOutputFiles,
        at \in SeqsUpTo(ValAudioTracks, MaxValAudioTracks),
        st \in SeqsUpTo(ValSubtitleTracks, MaxValSubtitleTracks),
        ia \in BOOLEAN, is \in BOOLEAN }

ValidateInit ==
    /\ jobs = [k \in JobKinds |-> NewJobState]
    /\ job \in ValidateJobs
    /\ fs = ValidateFs
    /\ cmd = <<>>
    /\ verdict = None
    /\ RunIdle

Validate ==
    /\ verdict = None
    /\ LET r == validate_remux_job(job, fs) IN
          /\ verdict' = IF r.error = None THEN "ok" ELSE r.error
          /\ fs' = r.fs
    /\ UNCHANGED job
    /\ UNCHANGED notValidate

ValidateNext == Validate

SpecValidate == ValidateInit /\ [][ValidateNext]_vars

ExtraTracks(j) == Range(j.audio_tracks) \cup Range(j.subtitle_tracks)

OutOfBounds(t) == t.offset_ms > 3600000 \/ t.offset_ms < -3600000

HasDuplicateIds(tracks) ==
    \E i, k \in 1..Len(tracks) : i /= k /\ tracks[i].id = tracks[k].id

\* The checks validate_remux_job runs before it looks at offsets all pass.
EarlierChecksPass ==
    /\ job.video_file = "in/v.mkv"
    /\ job.output_file \in {"out/o.mkv", "new/o.mkv", "in/a1.mka", "in/s1.ass"}
    /\ ~HasDuplicateIds(job.audio_tracks)
    /\ ~HasDuplicateIds(job.subtitle_tracks)

InputPaths(j) ==
    {Resolve(j.video_file)}
    \cup { Resolve(t.file_path) : t \in { x \in ExtraTracks(j) : x.file_path /= None } }

C10_OutputIsNoInput ==
    (verdict /= None /\ Resolve(job.output_file) \in InputPaths(job))
        => verdict /= "ok"

\* Two extra tracks of the job, in one list or across the two, share an id.
SharedTrackId(j) ==
    LET tracks == j.audio_tracks \o j.subtitle_tracks
    IN \E i, k \in 1..Len(tracks) : i /= k /\ tracks[i].id = tracks[k].id

(* C11: a job in which two extra tracks, in the same list or in different  *)
(* lists, share an id does not pass validation.                            *)
C11_SharedIdRejected ==
    (verdict /= None /\ SharedTrackId(job)) => verdict /= "ok"

(* C12: validating a job leaves the job and the filesystem, the set of     *)
(* existing directories included, as they were before the call.            *)
C12_ValidationHasNoSideEffect ==
    [][Validate => (fs' = fs /\ job' = job)]_vars

----------------------------------------------------------------------------
(* core/engines/base_engine.py: the process runner.                        *)

MaxLines == 2

RemuxResult(success, output_file, error_message) ==
    [success |-> success, output_file |-> output_file,
     error_message |-> error_message]

\* The first output flag followed by an argument names the output file.
ExtractOutputFile(command) ==
    LET hits == { i \in 1..Len(command) :
                     /\ command[i].t = "str"
                     /\ command[i].s \in {"-o", "-y", "--output"}
                     /\ i + 1 <= Len(command) }
    IN IF hits = {} THEN None
       ELSE command[(CHOOSE i \in hits : \A k \in hits : i <= k) + 1].s

\* What the tool may write on stderr: a progress line or any other line.
LineInputs ==
    { [kind |-> "progress", n |-> 50], [kind |-> "progress", n |-> 100],
      [kind |-> "text", n |-> 0] }

\* re.search(r'Progress:\s+(\d+)%', line)
ParseProgress(line) ==
    IF line.kind = "progress" THEN [matched |-> TRUE, value |-> line.n]
    ELSE [matched |-> FALSE, value |-> 0]

ExitCodes == {0, 2}

\* A runner that reports success whatever the exit code.
ExecuteResultIgnoringCode(returncode, command) ==
    RemuxResult(TRUE, ExtractOutputFile(command), None)

\* The result execute() builds once process.wait() has returned.
ExecuteResult(returncode, command) ==
    IF returncode = 0
    THEN RemuxResult(TRUE, ExtractOutputFile(command), None)
    ELSE RemuxResult(FALSE, None, <<"El proceso fallo con codigo ", returncode>>)

\* execute()'s own handler: any exception becomes a failure result.
ExecuteExcept(text) == RemuxResult(FALSE, None, text)

LaunchError == "[Errno 2] No such file or directory"

CallbackError == "progress callback raised"

UnexpectedError == "unexpected error"

----------------------------------------------------------------------------
(* core/services/remux_service.py: RemuxService.remux, step by step.       *)

\* Handlers that let every exception but ValidationError escape.
RemuxExceptOnlyValidation(j, kind, text) ==
    IF kind = "ValidationError"
    THEN [job |-> JobFail(j, <<"Error de validacion: ", text>>),
          result |-> RemuxResult(FALSE, None, text), pc |-> "returned"]
    ELSE [job |-> j, result |-> NoResult, pc |-> "raised"]

\* Handlers that report every exception as an unexpected one.
RemuxExceptAllUnexpected(j, kind, text) ==
    [job |-> JobFail(j, <<"Error inesperado: ", text>>),
     result |-> RemuxResult(FALSE, None, text), pc |-> "returned"]

\* The two except clauses of remux().
RemuxExcept(j, kind, text) ==
    IF kind = "ValidationError"
    THEN [job |-> JobFail(j, <<"Error de validacion: ", text>>),
          result |-> RemuxResult(FALSE, None, text), pc |-> "returned"]
    ELSE [job |-> JobFail(j, <<"Error inesperado: ", text>>),
          result |-> RemuxResult(FALSE, None, text), pc |-> "returned"]

\* A finish that marks the job completed whatever the result says.
FinishJobAlwaysComplete(j, result) == JobComplete(j)

\* Lines 82-85: complete() or fail(result.error_message or "Error desconocido").
FinishJob(j, result) ==
    IF result.success THEN JobComplete(j)
    ELSE JobFail(j, IF result.error_message = None \/ result.error_message = ""
                    THEN "Error desconocido" ELSE result.error_message)

\* validate_remux_job(job), inside the try.
SvcValidate ==
    /\ svc.pc = "called"
    /\ \E raises \in BOOLEAN :
          IF raises
          THEN LET h == RemuxExcept(job, "Exception", UnexpectedError) IN
               /\ job' = h.job
               /\ svc' = [svc EXCEPT !.pc = h.pc, !.result = h.result]
               /\ fs' = fs
          ELSE LET r == validate_remux_job(job, fs) IN
               /\ fs' = r.fs
               /\ IF r.error /= None
                  THEN LET h == RemuxExcept(job, "ValidationError", r.error) IN
                       /\ job' = h.job
                       /\ svc' = [svc EXCEPT !.pc = h.pc, !.result = h.result]
                  ELSE /\ job' = job
                       /\ svc' = [svc EXCEPT !.pc = "validated"]
    /\ UNCHANGED <<jobs, cmd, verdict, proc, worker, env, matcher, hist, batch>>

\* job.start()
SvcStart ==
    /\ svc.pc = "validated"
    /\ job' = JobStart(job)
    /\ svc' = [svc EXCEPT !.pc = "started"]
    /\ UNCHANGED <<jobs, fs, cmd, verdict, proc, worker, env, matcher, hist, batch>>

\* self.mkvmerge.remux: build_command, then execute() up to Popen.
SvcLaunch ==
    /\ svc.pc = "started"
    /\ \E raises \in BOOLEAN :
          IF raises
          THEN LET h == RemuxExcept(job, "Exception", UnexpectedError) IN
               /\ job' = h.job
               /\ svc' = [svc EXCEPT !.pc = h.pc, !.result = h.result]
               /\ UNCHANGED <<cmd, proc>>
          ELSE /\ cmd' = build_command(job, fs)
               /\ job' = job
               /\ IF env.tool_installed
                  THEN /\ proc' = [state |-> "running", lines |-> 0,
                                   returncode |-> 0, produced |-> 0]
                       /\ svc' = [svc EXCEPT !.pc = "reading"]
                  ELSE /\ proc' = proc
                       /\ svc' = [svc EXCEPT !.pc = "executed",
                                             !.result = ExecuteExcept(LaunchError)]
    /\ UNCHANGED <<jobs, fs, verdict, worker, env, matcher, hist, batch>>

\* A relay that books every tick on the first episode.
episode_progress_first_episode(ep_num, progress) == <<1, progress>>

\* batch_service.py, episode_progress: what the batch's own callback is
\* called with (the message is the same percent spelled out).
episode_progress(ep_num, progress) == <<ep_num, progress>>

\* The tool writes one line.  A line on stderr is one turn of
\* `for line in process.stderr`; stdout is piped and never read, so a line
\* there reaches nobody.  The callback the worker passes
\* emits the progress signal unless cancelled, the one the batch passes
\* relays (ep_num, progress).  A raising callback ends execute() through its
\* handler, the subprocess still running.
SvcReadLine ==
    /\ svc.pc = "reading"
    /\ proc.state = "running"
    /\ proc.lines < MaxLines
    /\ \E line \in LineInputs, raises \in BOOLEAN :
          LET on_stderr == line.kind /= "progress" \/ env.progress_on = "stderr"
              progress == IF on_stderr THEN ParseProgress(line)
                          ELSE [matched |-> FALSE, value |-> 0]
          IN
          /\ proc' = [proc EXCEPT
                        !.lines = @ + 1,
                        !.produced = IF line.kind = "progress" THEN line.n ELSE @]
          /\ IF progress.matched /\ raises
             THEN /\ svc' = [svc EXCEPT !.pc = "executed",
                                        !.result = ExecuteExcept(CallbackError)]
                  /\ worker' = worker
             ELSE /\ svc' = svc
                  /\ worker' =
                        IF progress.matched /\ worker.pc = "running"
                           /\ ~worker.is_cancelled
                        THEN [worker EXCEPT !.progress = progress.value]
                        ELSE worker
          /\ batch' =
                IF progress.matched /\ ~raises /\ batch.pc \in {"remux", "dir_remux"}
                THEN [batch EXCEPT !.last_progress = episode_progress(batch.ep_num, progress.value)]
                ELSE batch
    /\ UNCHANGED <<jobs, job, fs, cmd, verdict, env, matcher, hist>>

\* stderr reaches its end, process.wait() returns, the result is built.
SvcWait ==
    /\ svc.pc = "reading"
    /\ proc.state = "running"
    /\ \E rc \in ExitCodes :
          /\ proc' = [proc EXCEPT !.state = "exited", !.returncode = rc]
          /\ svc' = [svc EXCEPT !.pc = "executed",
                                !.result = ExecuteResult(rc, cmd)]
    /\ UNCHANGED <<jobs, job, fs, cmd, verdict, worker, env, matcher, hist, batch>>

\* job.complete() or job.fail(...), then return result.
SvcFinish ==
    /\ svc.pc = "executed"
    /\ job' = FinishJob(job, svc.result)
    /\ svc' = [svc EXCEPT !.pc = "returned"]
    /\ UNCHANGED <<jobs, fs, cmd, verdict, proc, worker, env, matcher, hist, batch>>

SvcNext ==
    \/ SvcValidate
    \/ SvcStart
    \/ SvcLaunch
    \/ SvcReadLine
    \/ SvcWait
    \/ SvcFinish

----------------------------------------------------------------------------
(* presentation/qt/workers/remux_worker.py: RemuxWorker.                   *)

CancelledMessage == "Cancelado por el usuario"

\* run(): calls remux_service.remux(self.job, progress_callback).
WorkerRun ==
    /\ worker.pc = "idle"
    /\ svc.pc = "idle"
    /\ worker' = [worker EXCEPT !.pc = "running"]
    /\ svc' = [svc EXCEPT !.pc = "called"]
    /\ UNCHANGED <<jobs, job, fs, cmd, verdict, proc, env, matcher, hist, batch>>

\* cancel(), from the UI thread while the worker thread runs.
WorkerCancel ==
    /\ worker.pc = "running"
    /\ worker' = [worker EXCEPT !.is_cancelled = TRUE]
    /\ hist' = [hist EXCEPT !.cancelled_while_running =
                                @ \/ proc.state = "running"]
    /\ UNCHANGED <<jobs, job, fs, cmd, verdict, svc, proc, env, matcher, batch>>

\* run(), after remux returned (or raised): the finished signal.
WorkerFinish ==
    /\ worker.pc = "running"
    /\ svc.pc \in {"returned", "raised"}
    /\ worker' =
          [worker EXCEPT
             !.pc = "done",
             !.finished =
                IF svc.pc = "raised" THEN <<FALSE, UnexpectedError>>
                ELSE IF worker.is_cancelled THEN <<FALSE, CancelledMessage>>
                ELSE IF svc.result.success
                     THEN <<TRUE, svc.result.output_file>>
                     ELSE <<FALSE, IF svc.result.error_message = None
                                      \/ svc.result.error_message = ""
                                   THEN "Error desconocido"
                                   ELSE svc.result.error_message>>]
    /\ UNCHANGED <<jobs, job, fs, cmd, verdict, svc, proc, env, matcher, hist, batch>>

\* The jobs handed to the service: a valid one, one whose video is missing,
\* one with an offset out of range below a directory still to be created,
\* one with nothing to do.
ServiceJobs ==
    { RemuxJob("in/v.mkv", "out/o.mkv",
               << Track(0, "AUDIO", "es-419", "Latino", 500, TRUE, FALSE, "in/a1.mka") >>,
               <<>>, FALSE, TRUE, TRUE),
      RemuxJob("in/missing.mkv", "out/o.mkv",
               << Track(0, "AUDIO", "es-419", "Latino", 500, TRUE, FALSE, "in/a1.mka") >>,
               <<>>, FALSE, TRUE, TRUE),
      RemuxJob("in/v.mkv", "new/o.mkv",
               << Track(0, "AUDIO", "es-419", "Latino", 3600001, TRUE, FALSE, "in/a1.mka") >>,
               <<>>, FALSE, TRUE, TRUE),
      RemuxJob("in/v.mkv", "out/o.mkv", <<>>, <<>>, FALSE, FALSE, FALSE) }

RemuxInit ==
    /\ jobs = [k \in JobKinds |-> NewJobState]
    /\ job \in ServiceJobs
    /\ fs = ValidateFs
    /\ cmd = <<>>
    /\ verdict = None
    /\ svc = [pc |-> "idle", result |-> NoResult]
    /\ proc = [state |-> "none", lines |-> 0, returncode |-> 0, produced |-> 0]
    /\ worker = [pc |-> "idle", is_cancelled |-> FALSE, progress |-> 0,
                 finished |-> None]
    /\ env \in [tool_installed : BOOLEAN, progress_on : {"stdout", "stderr"}]
    /\ hist = [cancelled_while_running |-> FALSE]
    /\ batch = NoBatch
    /\ matcher = NoMatcher

RemuxNext ==
    \/ WorkerRun
    \/ WorkerCancel
    \/ WorkerFinish
    \/ SvcNext

SpecRemux == RemuxInit /\ [][RemuxNext]_vars

(* C2: RemuxService.remux never raises to its caller: whatever validation, *)
(* command building and tool execution do, exceptions included, it returns *)
(* a RemuxResult, and on return the job is Completed if result.success is  *)
(* true and Failed with a recorded reason otherwise.                       *)
C2_RemuxNeverRaises ==
    /\ svc.pc /= "raised"
    /\ svc.pc = "returned" =>
          /\ svc.result /= NoResult
          /\ svc.result.success => job.status = "COMPLETED"
          /\ ~svc.result.success =>
                /\ job.status = "FAILED"
                /\ job.error_message /= None
                /\ job.error_message /= ""

\* remux returned after an unexpected exception was raised inside it.
C2_Witness ==
    /\ svc.pc = "returned"
    /\ svc.result.error_message = UnexpectedError
    /\ job.status = "FAILED"

(* C16: execute() returns a success result carrying the output path of     *)
(* the command iff the subprocess exited with code 0; a nonzero exit       *)
(* yields a failure whose message carries the exit code; a failed launch   *)
(* yields a failure with the OS error text, never an exception.            *)
C16_ExecuteResultFollowsExit ==
    svc.pc = "executed" =>
        /\ svc.result /= NoResult
        /\ svc.result.success <=> (proc.state = "exited" /\ proc.returncode = 0)
        /\ svc.result.success => svc.result.output_file = job.output_file
        /\ (proc.state = "exited" /\ proc.returncode /= 0) =>
              svc.result.error_message
                 = <<"El proceso fallo con codigo ", proc.returncode>>
        /\ proc.state = "none" => svc.result.error_message = LaunchError

\* execute() has returned after the subprocess exited with code 2.
C16_Witness ==
    /\ svc.pc = "executed"
    /\ proc.state = "exited" /\ proc.returncode = 2
    /\ ~svc.result.success

(* C17: each line of the tool's output that matches `Progress: NN%`, on    *)
(* stdout or on stderr, makes the runner invoke the progress callback with *)
(* NN: while the runner is reading and the worker is not cancelled, the    *)
(* value the worker's callback was last given is the value of the last     *)
(* progress line the tool produced.                                        *)
C17_ProgressLinesReachCallback ==
    (/\ svc.pc = "reading"
     /\ worker.pc = "running" /\ ~worker.is_cancelled
     /\ proc.produced /= 0)
        => worker.progress = proc.produced

(* C5: a cancel request issued while the job's mux subprocess is running   *)
(* makes the runner terminate the subprocess, and the job ends Cancelled   *)
(* with a 'cancelled' result, neither Failed nor Completed.                *)
C5_CancelEndsCancelled ==
    (worker.pc = "done" /\ hist.cancelled_while_running)
        => /\ job.status = "CANCELLED"
           /\ worker.finished = <<FALSE, CancelledMessage>>

----------------------------------------------------------------------------
(* core/services/batch_service.py: BatchService.process_episodes.          *)

Episode(number, video_file, audio_files, subtitle_files, forced_subtitle_files) ==
    [number |-> number, video_file |-> video_file, audio_files |-> audio_files,
     subtitle_files |-> subtitle_files,
     forced_subtitle_files |-> forced_subtitle_files]

\* Episode.is_complete
is_complete(episode) == episode.video_file /= None

\* The keys of the dict filter_complete_episodes returns.
filter_complete_episodes(episodes) ==
    { num \in DOMAIN episodes : is_complete(episodes[num]) }

\* sorted(...): the keys in ascending order.
RECURSIVE Sorted(_)
Sorted(S) ==
    IF S = {} THEN <<>>
    ELSE LET least == CHOOSE x \in S : \A y \in S : x <= y
         IN <<least>> \o Sorted(S \ {least})

\* The tallied BatchResult without the failures.
BatchResultNoFailed(total_episodes, successful, failed, skipped, results) ==
    [total_episodes |-> total_episodes, successful |-> successful,
     failed |-> 0, skipped |-> skipped, results |-> results]

BatchResult(total_episodes, successful, failed, skipped, results) ==
    [total_episodes |-> total_episodes, successful |-> successful,
     failed |-> failed, skipped |-> skipped, results |-> results]

\* Audio tracks that are all marked default.
EpisodeAudioTracksAllDefault(episode, audio_offset_ms) ==
    [i \in 1..Len(episode.audio_files) |->
        Track(i - 1, "AUDIO", "es-419", "Espanol Latino",
              audio_offset_ms, TRUE, FALSE, episode.audio_files[i])]

\* Lines 246-259: one audio track per audio file.
EpisodeAudioTracks(episode, audio_offset_ms) ==
    [i \in 1..Len(episode.audio_files) |->
        Track(i - 1, "AUDIO", "es-419", "Espanol Latino",
              audio_offset_ms, i = 1, FALSE, episode.audio_files[i])]

\* Lines 261-274: one subtitle track per regular subtitle file.
EpisodeSubtitleTracks(episode, subtitle_offset_ms) ==
    [i \in 1..Len(episode.subtitle_files) |->
        Track(i - 1, "SUBTITLE", "es-419", "Espanol Latino",
              subtitle_offset_ms, i = 1, FALSE, episode.subtitle_files[i])]

\* Forced tracks numbered by their own index alone.
EpisodeForcedTracksOwnIndex(episode, subtitle_offset_ms) ==
    [i \in 1..Len(episode.forced_subtitle_files) |->
        Track(i - 1, "SUBTITLE", "es-419", "Letreros",
              subtitle_offset_ms, FALSE, TRUE,
              episode.forced_subtitle_files[i])]

\* Lines 276-288: one forced track per forced file, appended to the
\* subtitle list; id = len(subtitle_tracks) + i while the list grows.
EpisodeForcedTracks(episode, subtitle_offset_ms) ==
    [i \in 1..Len(episode.forced_subtitle_files) |->
        Track(Len(episode.subtitle_files) + (i - 1) + (i - 1),
              "SUBTITLE", "es-419", "Letreros",
              subtitle_offset_ms, FALSE, TRUE,
              episode.forced_subtitle_files[i])]

\* [raised, none, job]: the exception of format(), the None of an episode
\* without video, or the job built.
create_job_from_episode(episode, output_directory, output_pattern, audio_offset_ms, subtitle_offset_ms) ==
    IF episode.video_file = None
    THEN [raised |-> FALSE, none |-> TRUE]
    ELSE LET output_name == FormatPattern(output_pattern, episode.number) IN
         IF output_name.raised
         THEN [raised |-> TRUE, none |-> FALSE]
         ELSE [raised |-> FALSE, none |-> FALSE,
               job |-> RemuxJob(episode.video_file,
                                JoinPath(output_directory, output_name.name),
                                EpisodeAudioTracks(episode, audio_offset_ms),
                                EpisodeSubtitleTracks(episode, subtitle_offset_ms)
                                  \o EpisodeForcedTracks(episode, subtitle_offset_ms),
                                FALSE, TRUE, TRUE)]

\* Lines 330-348: the filter, the early return and the mkdir.
BatchBegin ==
    /\ batch.pc = "called"
    /\ LET complete_episodes == filter_complete_episodes(batch.episodes)
           made == Mkdir(fs, batch.output_directory)
       IN IF complete_episodes = {}
          THEN /\ batch' = [batch EXCEPT
                              !.pc = "returned",
                              !.ret = BatchResult(0, 0, 0, 0, <<>>)]
               /\ fs' = fs
          ELSE /\ fs' = made.fs
               /\ batch' = [batch EXCEPT
                              !.pc = IF made.ok THEN "loop" ELSE "raised",
                              !.complete_episodes = complete_episodes,
                              !.queue = Sorted(complete_episodes)]
    /\ UNCHANGED <<jobs, job, cmd, verdict, svc, proc, worker, env, matcher, hist>>

\* Lines 354-369: the next episode of the loop, its job, the call of remux.
BatchCreateJob ==
    /\ batch.pc = "loop"
    /\ batch.queue /= <<>>
    /\ LET ep_num == Head(batch.queue)
           created == create_job_from_episode(
                          batch.episodes[ep_num], batch.output_directory,
                          batch.output_pattern, batch.audio_offset_ms,
                          batch.subtitle_offset_ms)
       IN IF created.raised
          THEN /\ batch' = [batch EXCEPT !.pc = "raised", !.ep_num = ep_num,
                                         !.attempted = Append(@, ep_num)]
               /\ UNCHANGED <<job, svc, proc>>
          ELSE IF created.none
          THEN /\ batch' = [batch EXCEPT !.queue = Tail(@), !.ep_num = ep_num]
               /\ UNCHANGED <<job, svc, proc>>
          ELSE /\ batch' = [batch EXCEPT !.pc = "remux", !.queue = Tail(@),
                                         !.ep_num = ep_num,
                                         !.attempted = Append(@, ep_num)]
               /\ job' = created.job
               /\ svc' = [pc |-> "called", result |-> NoResult]
               /\ proc' = [state |-> "none", lines |-> 0, returncode |-> 0, produced |-> 0]
    /\ UNCHANGED <<jobs, fs, cmd, verdict, worker, env, matcher, hist>>

\* Lines 371-384: the tallies and the entry of the result list.
BatchRecord ==
    /\ batch.pc = "remux"
    /\ svc.pc \in {"returned", "raised"}
    /\ IF svc.pc = "raised"
       THEN batch' = [batch EXCEPT !.pc = "raised"]
       ELSE IF svc.result.success
       THEN batch' = [batch EXCEPT
                        !.pc = "loop",
                        !.successful = @ + 1,
                        !.results = Append(@, [episode |-> batch.ep_num,
                                               success |-> TRUE,
                                               output |-> svc.result.output_file])]
       ELSE batch' = [batch EXCEPT
                        !.pc = "loop",
                        !.failed = @ + 1,
                        !.results = Append(@, [episode |-> batch.ep_num,
                                               success |-> FALSE,
                                               error |-> svc.result.error_message])]
    /\ svc' = [svc EXCEPT !.pc = "idle"]
    /\ UNCHANGED <<jobs, job, fs, cmd, verdict, proc, worker, env, matcher, hist>>

\* Lines 386-392: the loop is over, the BatchResult is returned.
BatchReturn ==
    /\ batch.pc = "loop"
    /\ batch.queue = <<>>
    /\ batch' = [batch EXCEPT
                   !.pc = "returned",
                   !.ret = BatchResult(Cardinality(batch.complete_episodes),
                                       batch.successful, batch.failed, 0,
                                       batch.results)]
    /\ UNCHANGED <<jobs, job, fs, cmd, verdict, svc, proc, worker, env, matcher, hist>>

\* Episodes 1..NumEpisodes with one audio file each; none of them, the
\* third or all of them lack the video file.
MissingSets == {{}, {3}, EpisodeNumbers}

BatchEpisodes(missing) ==
    [n \in EpisodeNumbers |->
        Episode(n, IF n \in missing THEN None ELSE EpisodeVideo(n),
                << EpisodeAudio(n) >>, <<>>, <<>>)]

OutputPatterns == {DefaultPattern, "{n}.mkv"}

BatchFs ==
    [ValidateFs EXCEPT
       !.files = @ \cup { EpisodeVideo(n) : n \in EpisodeNumbers }
                   \cup { EpisodeAudio(n) : n \in EpisodeNumbers }]

BatchInit ==
    /\ jobs = [k \in JobKinds |-> NewJobState]
    /\ job = NewJobState
    /\ fs = BatchFs
    /\ cmd = <<>>
    /\ verdict = None
    /\ svc = [pc |-> "idle", result |-> NoResult]
    /\ proc = [state |-> "none", lines |-> 0, returncode |-> 0, produced |-> 0]
    /\ worker = [pc |-> "idle", is_cancelled |-> FALSE, progress |-> 0,
                 finished |-> None]
    /\ env \in [tool_installed : BOOLEAN, progress_on : {"stderr"}]
    /\ hist = [cancelled_while_running |-> FALSE]
    /\ matcher = NoMatcher
    /\ \E missing \in MissingSets, pattern \in OutputPatterns :
          batch = [pc |-> "called",
                   episodes |-> BatchEpisodes(missing),
                   output_directory |-> "out",
                   output_pattern |-> pattern,
                   audio_offset_ms |-> 0,
                   subtitle_offset_ms |-> 0,
                   complete_episodes |-> {},
                   queue |-> <<>>,
                   ep_num |-> 0,
                   results |-> <<>>,
                   successful |-> 0,
                   failed |-> 0,
                   last_progress |-> <<0, 0>>,
                   attempted |-> <<>>,
                   ret |-> NoResult]

BatchNext ==
    \/ BatchBegin
    \/ BatchCreateJob
    \/ BatchRecord
    \/ BatchReturn
    \/ SvcNext

SpecBatch == BatchInit /\ [][BatchNext]_vars

\* The episode numbers of the result list, in order.
ResultEpisodes(results) == [i \in 1..Len(results) |-> results[i].episode]

(* C3: process_episodes attempts every complete episode exactly once, in   *)
(* ascending order, and no failure of one episode's job, an exception      *)
(* raised while creating it included, stops the loop: when the call is     *)
(* over every complete episode has been attempted and the result list      *)
(* holds one entry per attempted episode.                                  *)
C3_EveryEpisodeAttempted ==
    batch.pc \in {"returned", "raised"} =>
        /\ batch.attempted = Sorted(filter_complete_episodes(batch.episodes))
        /\ ResultEpisodes(batch.results) = batch.attempted

MissingEpisodes(episodes) ==
    { num \in DOMAIN episodes : ~is_complete(episodes[num]) }

(* C4: for the batch of 5 episodes of which episode 3 has no video, the    *)
(* returned BatchResult has skipped = 1 and total_episodes = 4, and        *)
(* episodes 1, 2, 4, 5 each appear exactly once in results.                *)
C4_SkippedCountsMissing ==
    (batch.pc = "returned" /\ MissingEpisodes(batch.episodes) = {3}) =>
        /\ batch.ret.skipped = 1
        /\ batch.ret.total_episodes = 4
        /\ ResultEpisodes(batch.ret.results) = <<1, 2, 4, 5>>

----------------------------------------------------------------------------
(* core/services/episode_matcher.py: EpisodeMatcher.  A file name is the   *)
(* sequence of its characters; the regular expressions are matched the way *)
(* re.search matches them: leftmost position first, greedy quantifiers.    *)

UpperCase ==
    << "A", "B", "C", "D", "E", "F", "G", "H", "I", "J", "K", "L", "M",
       "N", "O", "P", "Q", "R", "S", "T", "U", "V", "W", "X", "Y", "Z" >>

LowerCase ==
    << "a", "b", "c", "d", "e", "f", "g", "h", "i", "j", "k", "l", "m",
       "n", "o", "p", "q", "r", "s", "t", "u", "v", "w", "x", "y", "z" >>

\* str.lower() on one character; also what re.IGNORECASE compares.
Lower(c) ==
    IF \E i \in 1..26 : UpperCase[i] = c
    THEN LowerCase[CHOOSE i \in 1..26 : UpperCase[i] = c]
    ELSE c

Digits == << "0", "1", "2", "3", "4", "5", "6", "7", "8", "9" >>

IsDigit(c) == \E i \in 1..10 : Digits[i] = c

DigitValue(c) == (CHOOSE i \in 1..10 : Digits[i] = c) - 1

\* \s
Whitespace == {" "}

\* [\s_-]
Separators == Whitespace \cup {"_", "-"}

\* The character at position i, "" outside the name.
CharAt(s, i) == IF i \in 1..Len(s) THEN s[i] ELSE ""

\* The length of the longest run of characters of `class` from position i,
\* at most `most` long: a greedy class{0,most}.
RECURSIVE RunLength(_, _, _, _)
RunLength(s, i, class, most) ==
    IF most = 0 \/ CharAt(s, i) \notin class THEN 0
    ELSE 1 + RunLength(s, i + 1, class, most - 1)

DigitClass == { Digits[i] : i \in 1..10 }

\* int() of the n digits from position i.
RECURSIVE ToInt(_, _, _)
ToInt(s, i, n) ==
    IF n = 0 THEN 0
    ELSE 10 * ToInt(s, i, n - 1) + DigitValue(s[i + n - 1])

NoMatch == [matched |-> FALSE, value |-> 0]

Matched(value) == [matched |-> TRUE, value |-> value]

\* A season/episode match that yields the season, int(groups[0]).
MatchSeasonEpisodeSeason(s, i, spaced) ==
    LET a == RunLength(s, i + 1, DigitClass, 2)
        w == IF spaced THEN RunLength(s, i + 1 + a, Whitespace, Len(s)) ELSE 0
        e == i + 1 + a + w
        b == RunLength(s, e + 1, DigitClass, 2)
    IN IF Lower(CharAt(s, i)) = "s" /\ a >= 1 /\ Lower(CharAt(s, e)) = "e" /\ b >= 1
       THEN Matched(ToInt(s, i + 1, a))
       ELSE NoMatch

\* [Ss](\d{1,2})[Ee](\d{1,2}) at position i, with \s* before the E when
\* spaced; the value is int(groups[1]).
MatchSeasonEpisode(s, i, spaced) ==
    LET a == RunLength(s, i + 1, DigitClass, 2)
        w == IF spaced THEN RunLength(s, i + 1 + a, Whitespace, Len(s)) ELSE 0
        e == i + 1 + a + w
        b == RunLength(s, e + 1, DigitClass, 2)
    IN IF Lower(CharAt(s, i)) = "s" /\ a >= 1 /\ Lower(CharAt(s, e)) = "e" /\ b >= 1
       THEN Matched(ToInt(s, e + 1, b))
       ELSE NoMatch

\* The alternatives of (?:Episode|Episodio|Ep|E), in order.
EpisodeWords ==
    << << "e", "p", "i", "s", "o", "d", "e" >>,
       << "e", "p", "i", "s", "o", "d", "i", "o" >>,
       << "e", "p" >>,
       << "e" >> >>

HasWordAt(s, i, word) ==
    \A k \in 1..Len(word) : Lower(CharAt(s, i + k - 1)) = word[k]

\* One alternative, then [\s_-]*(\d{1,3}).
MatchEpisodeWord(s, i, word) ==
    LET sep == RunLength(s, i + Len(word), Separators, Len(s))
        d == i + Len(word) + sep
        n == RunLength(s, d, DigitClass, 3)
    IN IF HasWordAt(s, i, word) /\ n >= 1 THEN Matched(ToInt(s, d, n)) ELSE NoMatch

\* (?:Episode|Episodio|Ep|E)[\s_-]*(\d{1,3}) at position i: the first
\* alternative that lets the rest match.
MatchEpisode(s, i) ==
    LET hits == { k \in 1..Len(EpisodeWords) :
                     MatchEpisodeWord(s, i, EpisodeWords[k]).matched }
    IN IF hits = {} THEN NoMatch
       ELSE MatchEpisodeWord(s, i, EpisodeWords[CHOOSE k \in hits :
                                                   \A m \in hits : k <= m])

\* (\d{2,3}) from position d followed by a character of `after`, or by the
\* end of the name when atEnd: three digits are tried before two.
MatchNumber(s, d, after, atEnd) ==
    LET n == RunLength(s, d, DigitClass, 3)
        Follows(k) == IF atEnd THEN d + k = Len(s) + 1
                      ELSE CharAt(s, d + k) \in after
    IN IF n = 3 /\ Follows(3) THEN Matched(ToInt(s, d, 3))
       ELSE IF n >= 2 /\ Follows(2) THEN Matched(ToInt(s, d, 2))
       ELSE NoMatch

\* [\s_-] and then MatchNumber.
MatchSeparated(s, i, after, atEnd) ==
    IF CharAt(s, i) \in Separators THEN MatchNumber(s, i + 1, after, atEnd)
    ELSE NoMatch

\* EPISODE_PATTERNS[k] tried at position i.
MatchPatternAt(k, s, i) ==
    CASE k = 1 -> MatchSeasonEpisode(s, i, FALSE)
      [] k = 2 -> MatchSeasonEpisode(s, i, TRUE)
      [] k = 3 -> MatchEpisode(s, i)
      [] k = 4 -> MatchSeparated(s, i, Whitespace \cup {"_", "[", "("}, FALSE)
      [] k = 5 -> IF i = 1
                  THEN MatchNumber(s, 1, Whitespace \cup {"_", ".", "-"}, FALSE)
                  ELSE NoMatch
      [] k = 6 -> MatchSeparated(s, i, {}, TRUE)
      [] k = 7 -> MatchSeparated(s, i, Whitespace \cup {"_", ".", "-"}, FALSE)

NumPatterns == 7

\* pattern.search(filename): the match at the leftmost position.
SearchPattern(k, s) ==
    LET hits == { i \in 1..Len(s) : MatchPatternAt(k, s, i).matched }
    IN IF hits = {} THEN NoMatch
       ELSE MatchPatternAt(k, s, CHOOSE i \in hits : \A m \in hits : i <= m)

\* [found, number]: the first pattern, in priority order, that matches.
extract_episode_number(filename) ==
    LET hits == { k \in 1..NumPatterns : SearchPattern(k, filename).matched }
    IN IF hits = {} THEN [found |-> FALSE, number |-> 0]
       ELSE [found |-> TRUE,
             number |-> SearchPattern(CHOOSE k \in hits : \A m \in hits : k <= m,
                                      filename).value]

\* The pieces file names are put together from: season/episode tags,
\* episode tokens, words, separators, numbers and an extension.
NameSegments ==
    { << "S", "0", "1", "E", "0", "3" >>,
      << "s", "1", "e", "2" >>,
      << "S", "0", "2", " ", "E", "0", "4" >>,
      << "E", "p", "i", "s", "o", "d", "e", " ", "1", "2" >>,
      << "E", "p", "1", "2" >>,
      << "E", "1", "2" >>,
      << "m", "o", "v", "i", "e", " ", "2", " " >>,
      << "S", "h", "o", "w" >>,
      << " ", "-", " ", "0", "7", " " >>,
      << "_" >>,
      << "5" >>,
      << ".", "m", "k", "v" >> }

MaxSegments == 3

RECURSIVE Flatten(_)
Flatten(parts) ==
    IF parts = <<>> THEN <<>> ELSE Head(parts) \o Flatten(Tail(parts))

Filenames == { Flatten(parts) : parts \in SeqsUpTo(NameSegments, MaxSegments) }

ExtractInit ==
    /\ jobs = [k \in JobKinds |-> NewJobState]
    /\ job = NewJobState
    /\ fs = ValidateFs
    /\ cmd = <<>>
    /\ verdict = None
    /\ svc = [pc |-> "idle", result |-> NoResult]
    /\ proc = [state |-> "none", lines |-> 0, returncode |-> 0, produced |-> 0]
    /\ worker = [pc |-> "idle", is_cancelled |-> FALSE, progress |-> 0,
                 finished |-> None]
    /\ env = [tool_installed |-> TRUE, progress_on |-> "stderr"]
    /\ hist = [cancelled_while_running |-> FALSE]
    /\ batch = NoBatch
    /\ \E filename \in Filenames :
          matcher = [pc |-> "extract", filename |-> filename,
                     ep_num |-> [found |-> FALSE, number |-> 0]]

\* ep_num = self.extract_episode_number(filename)
Extract ==
    /\ matcher.pc = "extract"
    /\ matcher' = [matcher EXCEPT !.pc = "extracted",
                                  !.ep_num = extract_episode_number(matcher.filename)]
    /\ UNCHANGED <<jobs, job, fs, cmd, verdict, svc, proc, worker, env, hist, batch>>

ExtractNext == Extract

SpecExtract == ExtractInit /\ [][ExtractNext]_vars

\* A tag SxxEyy, two digits each, any letter case, starts at position i.
TagAt(s, i) ==
    /\ i + 5 <= Len(s)
    /\ s[i] \in {"S", "s"}
    /\ IsDigit(s[i + 1]) /\ IsDigit(s[i + 2])
    /\ s[i + 3] \in {"E", "e"}
    /\ IsDigit(s[i + 4]) /\ IsDigit(s[i + 5])

\* A tag with one or two digits in each component starts at position i.
LooseTagAt(s, i) ==
    \E a \in {1, 2} :
        /\ i + a + 2 <= Len(s)
        /\ s[i] \in {"S", "s"}
        /\ \A k \in 1..a : IsDigit(s[i + k])
        /\ s[i + a + 1] \in {"E", "e"}
        /\ IsDigit(s[i + a + 2])

(* C13 as stated: for every file name containing a tag SxxEyy, in any      *)
(* letter case, extract_episode_number returns yy, whatever else the name  *)
(* contains.                                                               *)
C13_AsStated ==
    matcher.pc = "extracted" =>
        \A i \in 1..Len(matcher.filename) :
            TagAt(matcher.filename, i) =>
                /\ matcher.ep_num.found
                /\ matcher.ep_num.number = ToInt(matcher.filename, i + 4, 2)

(* C13: when the first season/episode tag of a file name (S, one or two    *)
(* digits, E, one or two digits, any letter case) is a tag SxxEyy,         *)
(* extract_episode_number returns its episode component yy, never the      *)
(* season, whatever numbers and episode tokens the name holds elsewhere.   *)
C13_FirstTagGivesEpisode ==
    matcher.pc = "extracted" =>
        \A i \in 1..Len(matcher.filename) :
            (/\ TagAt(matcher.filename, i)
             /\ \A j \in 1..(i - 1) : ~LooseTagAt(matcher.filename, j))
                => /\ matcher.ep_num.found
                   /\ matcher.ep_num.number = ToInt(matcher.filename, i + 4, 2)

\* "movie 2 S01E03Ep12": the tag between a number and an episode token.
C13_Witness ==
    /\ matcher.pc = "extracted"
    /\ matcher.filename =
          << "m", "o", "v", "i", "e", " ", "2", " ",
             "S", "0", "1", "E", "0", "3", "E", "p", "1", "2" >>
    /\ matcher.ep_num = [found |-> TRUE, number |-> 3]

\* `token` occurs in s at position i, letter case included.
TokenAt(s, i, token) ==
    /\ i + Len(token) - 1 <= Len(s)
    /\ \A k \in 1..Len(token) : s[i + k - 1] = token[k]

EpisodeTokens ==
    { << "E", "p", "i", "s", "o", "d", "e", " ", "1", "2" >>,
      << "E", "p", "1", "2" >>,
      << "E", "1", "2" >> }

\* No season tag can start anywhere in s: no S is followed by a digit.
NoSeasonTag(s) ==
    \A i \in 1..Len(s) : ~(s[i] \in {"S", "s"} /\ IsDigit(CharAt(s, i + 1)))

(* C14: for every file name containing `Episode 12`, `Ep12` or `E12`,      *)
(* extract_episode_number returns 12, whatever text surrounds the token;   *)
(* checked for the names in which the token's number ends there (no digit  *)
(* follows it) and no season/episode tag competes with it.                 *)
C14_EpisodeTokenGives12 ==
    (/\ matcher.pc = "extracted"
     /\ NoSeasonTag(matcher.filename)
     /\ \E token \in EpisodeTokens, i \in 1..Len(matcher.filename) :
           /\ TokenAt(matcher.filename, i, token)
           /\ ~IsDigit(CharAt(matcher.filename, i + Len(token))))
        => matcher.ep_num = [found |-> TRUE, number |-> 12]

----------------------------------------------------------------------------
(* EpisodeMatcher.group_files_by_episode over spelled-out file names.      *)

AUDIO_EXTENSIONS == {".m4a", ".aac", ".mp3", ".flac", ".opus", ".ogg", ".wav"}

SUBTITLE_EXTENSIONS == {".ass", ".srt", ".sub", ".ssa", ".vtt"}

LowerAll(s) == [i \in 1..Len(s) |-> Lower(s[i])]

\* Path.suffix: from the last dot on, empty when there is no dot or the
\* dot is the first or the last character of the name.
PathSuffix(name) ==
    LET dots == { i \in 1..Len(name) : name[i] = "." } IN
    IF dots = {} THEN <<>>
    ELSE LET last == CHOOSE i \in dots : \A k \in dots : k <= i
         IN IF last = 1 \/ last = Len(name) THEN <<>>
            ELSE SubSeq(name, last, Len(name))

\* get_file_extension of a spelled-out name: suffix.lower(), as the string
\* the extension sets hold; "" for a suffix that is in none of them.
NameExtension(name) ==
    LET suffix == LowerAll(PathSuffix(name)) IN
    CASE suffix = << ".", "m", "k", "v" >> -> ".mkv"
      [] suffix = << ".", "m", "p", "4" >> -> ".mp4"
      [] suffix = << ".", "a", "v", "i" >> -> ".avi"
      [] suffix = << ".", "m", "o", "v" >> -> ".mov"
      [] suffix = << ".", "w", "e", "b", "m" >> -> ".webm"
      [] suffix = << ".", "f", "l", "v" >> -> ".flv"
      [] suffix = << ".", "m", "4", "v" >> -> ".m4v"
      [] suffix = << ".", "m", "4", "a" >> -> ".m4a"
      [] suffix = << ".", "a", "a", "c" >> -> ".aac"
      [] suffix = << ".", "m", "p", "3" >> -> ".mp3"
      [] suffix = << ".", "f", "l", "a", "c" >> -> ".flac"
      [] suffix = << ".", "o", "p", "u", "s" >> -> ".opus"
      [] suffix = << ".", "o", "g", "g" >> -> ".ogg"
      [] suffix = << ".", "w", "a", "v" >> -> ".wav"
      [] suffix = << ".", "a", "s", "s" >> -> ".ass"
      [] suffix = << ".", "s", "r", "t" >> -> ".srt"
      [] suffix = << ".", "s", "u", "b" >> -> ".sub"
      [] suffix = << ".", "s", "s", "a" >> -> ".ssa"
      [] suffix = << ".", "v", "t", "t" >> -> ".vtt"
      [] OTHER -> ""

\* The word occurs somewhere in s.
Contains(s, word) ==
    \E i \in 1..Len(s) : TokenAt(s, i, word)

\* signs?\s*&\s*songs? matches at position i.
MatchSignsAndSongs(s, i) ==
    LET a == i + 4 + (IF CharAt(s, i + 4) = "s" THEN 1 ELSE 0)
        amp == a + RunLength(s, a, Whitespace, Len(s))
        b == amp + 1 + RunLength(s, amp + 1, Whitespace, Len(s))
    IN /\ TokenAt(s, i, << "s", "i", "g", "n" >>)
       /\ CharAt(s, amp) = "&"
       /\ TokenAt(s, b, << "s", "o", "n", "g" >>)

\* A forced-subtitle test that knows the word `forced` only.
is_forced_subtitle_one_word(filename) ==
    Contains(LowerAll(filename), << "f", "o", "r", "c", "e", "d" >>)

\* any(pattern.search(filename.lower()) for pattern in FORCED_PATTERNS)
is_forced_subtitle(filename) ==
    LET filename_lower == LowerAll(filename) IN
    \/ Contains(filename_lower, << "f", "o", "r", "c", "e", "d" >>)
    \/ Contains(filename_lower, << "l", "e", "t", "r", "e", "r", "o", "s" >>)
    \/ Contains(filename_lower, << "s", "i", "g", "n", "s" >>)
    \/ \E i \in 1..Len(filename_lower) : MatchSignsAndSongs(filename_lower, i)

\* episodes[ep_num] = episode
Put(episodes, ep_num, episode) ==
    [n \in DOMAIN episodes \cup {ep_num} |->
        IF n = ep_num THEN episode ELSE episodes[n]]

\* The rest of a turn once the name passed the extension test and gave
\* the number n: the Episode made on first use, the slot.
PlaceFile(episodes, file, kind, n) ==
    LET episode == IF n \in DOMAIN episodes THEN episodes[n]
                   ELSE Episode(n, None, <<>>, <<>>, <<>>)
    IN Put(episodes, n,
           CASE kind = "video" -> [episode EXCEPT !.video_file = file]
             [] kind = "audio" ->
                  [episode EXCEPT !.audio_files = Append(@, file)]
             [] kind = "subtitle" ->
                  IF is_forced_subtitle(file)
                  THEN [episode EXCEPT
                          !.forced_subtitle_files = Append(@, file)]
                  ELSE [episode EXCEPT
                          !.subtitle_files = Append(@, file)])

\* One turn of one of the three loops: the extension test, then
\* ep_num = self.extract_episode_number(file.name), then the slot.
GroupFile(episodes, file, kind) ==
    LET allowed == CASE kind = "video" -> VIDEO_EXTENSIONS
                     [] kind = "audio" -> AUDIO_EXTENSIONS
                     [] kind = "subtitle" -> SUBTITLE_EXTENSIONS
    IN IF NameExtension(file) \notin allowed THEN episodes
       ELSE CHOOSE result \in
                { IF ep_num.found
                  THEN PlaceFile(episodes, file, kind, ep_num.number)
                  ELSE episodes :
                    ep_num \in { extract_episode_number(file) } } : TRUE

\* One of the three loops.  The dictionary after each turn is bound to a
\* name (after) before the next turn reads it, as the loop variable is.
RECURSIVE GroupFiles(_, _, _)
GroupFiles(episodes, files, kind) ==
    IF files = <<>> THEN episodes
    ELSE CHOOSE result \in { GroupFiles(after, Tail(files), kind) :
                               after \in { GroupFile(before, Head(files), kind) :
                                             before \in {episodes} } } : TRUE

group_files_by_episode(video_files, audio_files, subtitle_files) ==
    CHOOSE result \in
        { GroupFiles(with_audio, subtitle_files, "subtitle") :
            with_audio \in
              { GroupFiles(with_video, audio_files, "audio") :
                  with_video \in { GroupFiles(<<>>, video_files, "video") } } } : TRUE

MaxListLen == 2

\* The lists of distinct names of at most n files out of S.
DistinctSeqs(S, n) ==
    { q \in SeqsUpTo(S, n) : \A i, k \in 1..Len(q) : i /= k => q[i] /= q[k] }

\* Show_03.mkv, S01E03.MP4 (the same episode), Show.mkv (no number)
VideoNames ==
    { << "S", "h", "o", "w", "_", "0", "3", ".", "m", "k", "v" >>,
      << "S", "0", "1", "E", "0", "3", ".", "M", "P", "4" >>,
      << "S", "h", "o", "w", ".", "m", "k", "v" >> }

\* 03_audio_latino.m4a, Show_03.txt (no audio extension)
AudioNames ==
    { << "0", "3", "_", "a", "u", "d", "i", "o", "_", "l", "a", "t", "i", "n", "o", ".", "m", "4", "a" >>,
      << "S", "h", "o", "w", "_", "0", "3", ".", "t", "x", "t" >> }

\* Show_Ep_03_subs.ass, Show-03-forced.ass, 04 sign & song.srt,
\* notes.ass (no number)
SubtitleNames ==
    { << "S", "h", "o", "w", "_", "E", "p", "_", "0", "3", "_", "s", "u", "b", "s", ".", "a", "s", "s" >>,
      << "S", "h", "o", "w", "-", "0", "3", "-", "f", "o", "r", "c", "e", "d", ".", "a", "s", "s" >>,
      << "0", "4", " ", "s", "i", "g", "n", " ", "&", " ", "s", "o", "n", "g", ".", "s", "r", "t" >>,
      << "n", "o", "t", "e", "s", ".", "a", "s", "s" >> }

GroupInit ==
    /\ jobs = [k \in JobKinds |-> NewJobState]
    /\ job = NewJobState
    /\ fs = ValidateFs
    /\ cmd = <<>>
    /\ verdict = None
    /\ svc = [pc |-> "idle", result |-> NoResult]
    /\ proc = [state |-> "none", lines |-> 0, returncode |-> 0, produced |-> 0]
    /\ worker = [pc |-> "idle", is_cancelled |-> FALSE, progress |-> 0,
                 finished |-> None]
    /\ env = [tool_installed |-> TRUE, progress_on |-> "stderr"]
    /\ hist = [cancelled_while_running |-> FALSE]
    /\ batch = NoBatch
    /\ \E v \in DistinctSeqs(VideoNames, MaxListLen),
          a \in DistinctSeqs(AudioNames, MaxListLen),
          t \in DistinctSeqs(SubtitleNames, MaxListLen) :
          matcher = [pc |-> "group", video_files |-> v, audio_files |-> a,
                     subtitle_files |-> t, episodes |-> <<>>]

Group ==
    /\ matcher.pc = "group"
    /\ matcher' = [matcher EXCEPT
                     !.pc = "grouped",
                     !.episodes = group_files_by_episode(
                                      matcher.video_files, matcher.audio_files,
                                      matcher.subtitle_files)]
    /\ UNCHANGED <<jobs, job, fs, cmd, verdict, svc, proc, worker, env, hist, batch>>

GroupNext == Group

SpecGroup == GroupInit /\ [][GroupNext]_vars

\* Where the name p occurs in the returned episodes: <<number, slot, index>>.
Occurrences(episodes, p) ==
    UNION { { <<n, "video", 1>> : x \in { y \in {1} : p = episodes[n].video_file } }
            \cup { <<n, "audio", i>> :
                      i \in { k \in 1..Len(episodes[n].audio_files) :
                                 p = episodes[n].audio_files[k] } }
            \cup { <<n, "subtitle", i>> :
                      i \in { k \in 1..Len(episodes[n].subtitle_files) :
                                 p = episodes[n].subtitle_files[k] } }
            \cup { <<n, "forced", i>> :
                      i \in { k \in 1..Len(episodes[n].forced_subtitle_files) :
                                 p = episodes[n].forced_subtitle_files[k] } }
          : n \in DOMAIN episodes }

\* The name contains forced, letreros or signs, in any letter case.
NamesForcedWord(name) ==
    \E word \in { << "f", "o", "r", "c", "e", "d" >>,
                  << "l", "e", "t", "r", "e", "r", "o", "s" >>,
                  << "s", "i", "g", "n", "s" >> } :
        Contains(LowerAll(name), word)

\* The name contains sign & song: either word may carry a plural s, blanks
\* may surround the ampersand.
NamesSignAndSong(name) ==
    LET low == LowerAll(name) IN
    \E i \in 1..Len(low), plural \in {0, 1}, w1 \in 0..Len(low), w2 \in 0..Len(low) :
        /\ TokenAt(low, i, << "s", "i", "g", "n" >>)
        /\ plural = 1 => CharAt(low, i + 4) = "s"
        /\ \A k \in 1..w1 : CharAt(low, i + 3 + plural + k) = " "
        /\ CharAt(low, i + 4 + plural + w1) = "&"
        /\ \A k \in 1..w2 : CharAt(low, i + 4 + plural + w1 + k) = " "
        /\ TokenAt(low, i + 5 + plural + w1 + w2, << "s", "o", "n", "g" >>)

\* extract_episode_number of each name the lists are drawn from.
NumberOfName ==
    [file \in VideoNames \cup AudioNames \cup SubtitleNames |->
        extract_episode_number(file)]

\* The file is taken: its extension is one of `allowed` and it has a number.
Accepted(file, allowed) ==
    NameExtension(file) \in allowed /\ NumberOfName[file].found

\* Every input path is where the claim puts it, `Forced` telling the forced
\* subtitles from the regular ones.
PlacedAsClaimed(Forced(_)) ==
    LET v == matcher.video_files
        a == matcher.audio_files
        t == matcher.subtitle_files
        eps == matcher.episodes
        Num(file) == NumberOfName[file].number
    IN /\ \A i \in 1..Len(v) :
             IF Accepted(v[i], VIDEO_EXTENSIONS)
                /\ ~\E k \in (i + 1)..Len(v) :
                       Accepted(v[k], VIDEO_EXTENSIONS) /\ Num(v[k]) = Num(v[i])
             THEN Occurrences(eps, v[i]) = { <<Num(v[i]), "video", 1>> }
             ELSE Occurrences(eps, v[i]) = {}
       /\ \A i \in 1..Len(a) :
             IF Accepted(a[i], AUDIO_EXTENSIONS)
             THEN \E k \in 1..Len(a) :
                     Occurrences(eps, a[i]) = { <<Num(a[i]), "audio", k>> }
             ELSE Occurrences(eps, a[i]) = {}
       /\ \A i \in 1..Len(t) :
             IF Accepted(t[i], SUBTITLE_EXTENSIONS)
             THEN \E k \in 1..Len(t) :
                     Occurrences(eps, t[i]) =
                        { <<Num(t[i]), IF Forced(t[i]) THEN "forced" ELSE "subtitle", k>> }
             ELSE Occurrences(eps, t[i]) = {}
       /\ \A n \in DOMAIN eps : eps[n].number = n

(* C15 as stated: every accepted input path sits in exactly one slot of    *)
(* the Episode of its number, a subtitle in forced_subtitle_files iff its  *)
(* name contains forced, letreros or signs; other paths sit nowhere.       *)
C15_AsStated ==
    matcher.pc = "grouped" => PlacedAsClaimed(NamesForcedWord)

ForcedName(name) == NamesForcedWord(name) \/ NamesSignAndSong(name)

(* C15: every accepted input path sits in exactly one slot of the Episode  *)
(* of its number: the last video of a number in the video slot, an audio   *)
(* in audio_files, a subtitle in forced_subtitle_files iff its name        *)
(* contains forced, letreros, signs or sign(s) & song(s), else in          *)
(* subtitle_files; a path without number or accepted extension is in no    *)
(* Episode.                                                                *)
C15_EveryFileInItsSlot ==
    matcher.pc = "grouped" => PlacedAsClaimed(ForcedName)

\* Show_03.mkv, 03_audio_latino.m4a, Show_Ep_03_subs.ass and
\* Show-03-forced.ass end in the four slots of one Episode 3.
C15_Witness ==
    /\ matcher.pc = "grouped"
    /\ Len(matcher.video_files) = 1 /\ Len(matcher.audio_files) = 1
    /\ Len(matcher.subtitle_files) = 2
    /\ DOMAIN matcher.episodes = {3}
    /\ matcher.video_files[1] = matcher.episodes[3].video_file
    /\ Len(matcher.episodes[3].audio_files) = 1
    /\ Len(matcher.episodes[3].subtitle_files) = 1
    /\ Len(matcher.episodes[3].forced_subtitle_files) = 1

----------------------------------------------------------------------------
(* core/services/dual_video_service.py: DualVideoService.                  *)

DualVideoRemuxJob(video_primary, video_secondary, output_file, audio_offset_ms, subtitle_offset_ms, include_primary_audio, include_secondary_audio, include_primary_subtitles, include_secondary_subtitles, external_audio_tracks, external_subtitle_tracks) ==
    [video_primary |-> video_primary, video_secondary |-> video_secondary,
     output_file |-> output_file,
     audio_offset_ms |-> audio_offset_ms,
     subtitle_offset_ms |-> subtitle_offset_ms,
     include_primary_audio |-> include_primary_audio,
     include_secondary_audio |-> include_secondary_audio,
     include_primary_subtitles |-> include_primary_subtitles,
     include_secondary_subtitles |-> include_secondary_subtitles,
     primary_audio_language |-> "ja", primary_audio_title |-> "Japones",
     secondary_audio_language |-> "es-419",
     secondary_audio_title |-> "Espanol Latino",
     external_audio_tracks |-> external_audio_tracks,
     external_subtitle_tracks |-> external_subtitle_tracks,
     status |-> "PENDING", progress |-> 0, error_message |-> None,
     started_at |-> None, completed_at |-> None]

\* Path(title) if title and Path(title).exists() else None
get_track_file_from_title(title, f) ==
    IF Truthy(title) /\ PathExists(f, title) THEN title ELSE None

\* Lines 139-164: the primary input and its options.
DualPrimaryInput(j) ==
    << Str("--audio-tracks"),
       Str(IF j.include_primary_audio THEN "all" ELSE "none") >>
    \o << Str("--subtitle-tracks"),
          Str(IF j.include_primary_subtitles THEN "all" ELSE "none") >>
    \o (IF j.include_primary_audio
        THEN << Str("--language"), Fmt0Str(j.primary_audio_language),
                Str("--track-name"), Fmt0Str(j.primary_audio_title),
                Str("--default-track"), Str("0:yes") >>
        ELSE <<>>)
    \o (IF j.include_primary_subtitles
        THEN << Str("--default-track"), Str("0:yes") >> ELSE <<>>)
    \o << Str(j.video_primary) >>

\* A secondary input that leaves the video of the secondary file in.
DualSecondaryInputWithVideo(j) ==
    (IF ~j.include_secondary_audio THEN << Str("--no-audio") >> ELSE <<>>)
    \o (IF ~j.include_secondary_subtitles
        THEN << Str("--no-subtitles") >> ELSE <<>>)
    \o (IF j.audio_offset_ms /= 0 /\ j.include_secondary_audio
        THEN << Str("--sync"), Fmt0Int(j.audio_offset_ms) >> ELSE <<>>)
    \o (IF j.include_secondary_audio
        THEN << Str("--language"), Fmt0Str(j.secondary_audio_language),
                Str("--track-name"), Fmt0Str(j.secondary_audio_title) >>
        ELSE <<>>)
    \o << Str(j.video_secondary) >>

\* A secondary input that applies the offset whether or not its audio is
\* included.
DualSecondaryInputAlwaysSync(j) ==
    << Str("--no-video") >>
    \o (IF ~j.include_secondary_audio THEN << Str("--no-audio") >> ELSE <<>>)
    \o (IF ~j.include_secondary_subtitles
        THEN << Str("--no-subtitles") >> ELSE <<>>)
    \o (IF j.audio_offset_ms /= 0
        THEN << Str("--sync"), Fmt0Int(j.audio_offset_ms) >> ELSE <<>>)
    \o (IF j.include_secondary_audio
        THEN << Str("--language"), Fmt0Str(j.secondary_audio_language),
                Str("--track-name"), Fmt0Str(j.secondary_audio_title) >>
        ELSE <<>>)
    \o << Str(j.video_secondary) >>

\* Lines 166-187: the secondary input and its options.
DualSecondaryInput(j) ==
    << Str("--no-video") >>
    \o (IF ~j.include_secondary_audio THEN << Str("--no-audio") >> ELSE <<>>)
    \o (IF ~j.include_secondary_subtitles
        THEN << Str("--no-subtitles") >> ELSE <<>>)
    \o (IF j.audio_offset_ms /= 0 /\ j.include_secondary_audio
        THEN << Str("--sync"), Fmt0Int(j.audio_offset_ms) >> ELSE <<>>)
    \o (IF j.include_secondary_audio
        THEN << Str("--language"), Fmt0Str(j.secondary_audio_language),
                Str("--track-name"), Fmt0Str(j.secondary_audio_title) >>
        ELSE <<>>)
    \o << Str(j.video_secondary) >>

\* Lines 191-218: one external track, found through its title.
DualExternalTrack(track, f, subtitle) ==
    LET file == get_track_file_from_title(track.title, f) IN
    IF file = None THEN <<>>
    ELSE (IF track.offset_ms /= 0
          THEN << Str("--sync"), Fmt0Int(track.offset_ms) >> ELSE <<>>)
         \o (IF Truthy(track.language)
             THEN << Str("--language"), Fmt0Str(track.language) >> ELSE <<>>)
         \o (IF Truthy(track.title)
             THEN << Str("--track-name"), Fmt0Str(track.title) >> ELSE <<>>)
         \o (IF subtitle /\ track.is_forced
             THEN << Str("--forced-display-flag"), Str("0:1") >> ELSE <<>>)
         \o (IF track.is_default
             THEN << Str("--default-track"), Str("0:yes") >> ELSE <<>>)
         \o << Str(file) >>

RECURSIVE DualExternalTracks(_, _, _)
DualExternalTracks(tracks, f, subtitle) ==
    IF tracks = <<>> THEN <<>>
    ELSE DualExternalTrack(Head(tracks), f, subtitle)
         \o DualExternalTracks(Tail(tracks), f, subtitle)

build_mkvmerge_command(j, f) ==
    << Str(executable_path), Str("-o"), Str(j.output_file) >>
    \o DualPrimaryInput(j)
    \o DualSecondaryInput(j)
    \o DualExternalTracks(j.external_audio_tracks, f, FALSE)
    \o DualExternalTracks(j.external_subtitle_tracks, f, TRUE)

----------------------------------------------------------------------------
(* SpecDualBuild: _build_mkvmerge_command applied to a dual-video job      *)
(* drawn from a bounded set.                                               *)

MaxDualTracks == 1

AudioOffsets == {0, 500, -500}

SubtitleOffsets == {0, 250}

\* External tracks are found through their title: one whose title is a
\* file, one whose title is not.
DualAudioTracks ==
    { Track(0, "AUDIO", "es-419", "old.mka", -250, TRUE, FALSE, None),
      Track(1, "AUDIO", "ja", "Latino", 500, TRUE, FALSE, "a1.mka") }

DualSubtitleTracks ==
    { Track(0, "SUBTITLE", "es-419", "old.ass", 300, TRUE, TRUE, None),
      Track(1, "SUBTITLE", None, "old.ass", 0, FALSE, FALSE, None) }

DualFs ==
    [files |-> {"jp.mkv", "lat.mkv", "old.mka", "old.ass", "a1.mka"},
     dirs |-> {".", "out"}]

DualBuildJobs ==
    { DualVideoRemuxJob("jp.mkv", "lat.mkv", "out/ep.mkv", ao, so, ipa, isa, ips, iss, at, st) :
        ao \in AudioOffsets, so \in SubtitleOffsets,
        ipa \in BOOLEAN, isa \in BOOLEAN, ips \in BOOLEAN, iss \in BOOLEAN,
        at \in SeqsUpTo(DualAudioTracks, MaxDualTracks),
        st \in SeqsUpTo(DualSubtitleTracks, MaxDualTracks) }

DualBuildInit ==
    /\ jobs = [k \in JobKinds |-> NewJobState]
    /\ job \in DualBuildJobs
    /\ fs = DualFs
    /\ cmd = <<>>
    /\ verdict = None
    /\ RunIdle

BuildDual ==
    /\ cmd = <<>>
    /\ verdict = None
    /\ RunIdle
    /\ cmd' = build_mkvmerge_command(job, fs)
    /\ UNCHANGED notCmd

DualBuildNext == BuildDual

SpecDualBuild == DualBuildInit /\ [][DualBuildNext]_vars

----------------------------------------------------------------------------
(* How the mux tool reads a dual-video argument list: --no-video,          *)
(* --no-audio and --no-subtitles take no value, every other option takes   *)
(* one, and all of them apply to the next file argument.                   *)

FlagNames == { "--no-video", "--no-audio", "--no-subtitles" }

IsFlag(a) == a.t = "str" /\ a.s \in FlagNames

RECURSIVE ParseDualInputs(_, _, _, _)
ParseDualInputs(args, opts, flags, groups) ==
    IF args = <<>> THEN groups
    ELSE IF IsFlag(Head(args))
         THEN ParseDualInputs(Tail(args), opts, flags \cup {Head(args).s}, groups)
         ELSE IF IsOption(Head(args)) /\ Len(args) >= 2
              THEN ParseDualInputs(SubSeq(args, 3, Len(args)), Append(opts, <<args[1], args[2]>>), flags, groups)
              ELSE ParseDualInputs(Tail(args), <<>>, {}, Append(groups, [opts |-> opts, flags |-> flags, path |-> Head(args)]))

DualInputs(c) == ParseDualInputs(SubSeq(c, 4, Len(c)), <<>>, {}, <<>>)

PrimaryGroup == DualInputs(cmd)[1]

SecondaryGroup == DualInputs(cmd)[2]

OptionValues(g, name) ==
    { g.opts[i][2] : i \in { n \in 1..Len(g.opts) : g.opts[n][1] = Str(name) } }

(* C18: in the command built for any DualVideoRemuxJob the secondary       *)
(* input's group contains the no-video flag, the primary input's group     *)
(* carries --default-track 0:yes whenever include_primary_audio is true,   *)
(* and the secondary input's group carries no --default-track option, for  *)
(* every combination of the four inclusion flags.                          *)
C18_SecondaryNoVideoPrimaryDefault ==
    cmd /= <<>> =>
        /\ Len(DualInputs(cmd)) >= 2
        /\ PrimaryGroup.path = Str(job.video_primary)
        /\ SecondaryGroup.path = Str(job.video_secondary)
        /\ "--no-video" \in SecondaryGroup.flags
        /\ (job.include_primary_audio
              => Str("0:yes") \in OptionValues(PrimaryGroup, "--default-track"))
        /\ OptionValues(SecondaryGroup, "--default-track") = {}

\* A built command of a job that includes the audio of both files and has
\* an external track that is marked default.
C18_Witness ==
    /\ cmd /= <<>>
    /\ job.include_primary_audio
    /\ job.include_secondary_audio
    /\ ~job.include_primary_subtitles
    /\ Len(DualInputs(cmd)) = 3
    /\ OptionValues(DualInputs(cmd)[3], "--default-track") /= {}

----------------------------------------------------------------------------
(* core/services/dual_video_service.py: DualVideoService.remux_dual, step  *)
(* by step.                                                                *)

\* _validate_job: None, or the text of the ValidationError it raises.
validate_job(j, f) ==
    IF ~Exists(f, j.video_primary) THEN "Video primario no existe"
    ELSE IF ~Exists(f, j.video_secondary) THEN "Video secundario no existe"
    ELSE IF Resolve(j.video_primary) = Resolve(j.video_secondary)
         THEN "Los videos primario y secundario no pueden ser el mismo archivo"
    ELSE IF ~Exists(f, Parent(j.output_file))
         THEN "Directorio de salida no existe"
    ELSE None

\* str(e) of the AttributeError raised by self.mkvmerge.execute_command:
\* neither MKVMergeEngine nor BaseEngine defines execute_command.
AttributeErrorText ==
    "'MKVMergeEngine' object has no attribute 'execute_command'"

\* The two except clauses of remux_dual().
DualExcept(j, kind, text) ==
    IF kind = "ValidationError"
    THEN [job |-> JobFail(j, <<"Error de validacion: ", text>>),
          result |-> RemuxResult(FALSE, None, text)]
    ELSE [job |-> JobFail(j, <<"Error inesperado: ", text>>),
          result |-> RemuxResult(FALSE, None, text)]

\* remux_dual(job, progress_callback) is called.
DualCall ==
    /\ svc.pc = "idle"
    /\ svc' = [svc EXCEPT !.pc = "called"]
    /\ UNCHANGED <<jobs, job, fs, cmd, verdict, proc, worker, env, matcher, hist, batch>>

\* self._validate_job(job), inside the try.
DualValidate ==
    /\ svc.pc = "called"
    /\ LET e == validate_job(job, fs) IN
       IF e /= None
       THEN LET h == DualExcept(job, "ValidationError", e) IN
            /\ job' = h.job
            /\ svc' = [svc EXCEPT !.pc = "returned", !.result = h.result]
       ELSE /\ job' = job
            /\ svc' = [svc EXCEPT !.pc = "validated"]
    /\ UNCHANGED <<jobs, fs, cmd, verdict, proc, worker, env, matcher, hist, batch>>

\* job.start()
DualStart ==
    /\ svc.pc = "validated"
    /\ job' = JobStart(job)
    /\ svc' = [svc EXCEPT !.pc = "started"]
    /\ UNCHANGED <<jobs, fs, cmd, verdict, proc, worker, env, matcher, hist, batch>>

\* cmd = self._build_mkvmerge_command(job)
DualBuildCommand ==
    /\ svc.pc = "started"
    /\ cmd' = build_mkvmerge_command(job, fs)
    /\ svc' = [svc EXCEPT !.pc = "built"]
    /\ UNCHANGED <<jobs, job, fs, verdict, proc, worker, env, matcher, hist, batch>>

\* result = self.mkvmerge.execute_command(cmd, progress_callback): the
\* attribute lookup raises AttributeError, `except Exception` handles it.
\* No subprocess is started.
DualExecute ==
    /\ svc.pc = "built"
    /\ LET h == DualExcept(job, "Exception", AttributeErrorText) IN
       /\ job' = h.job
       /\ svc' = [svc EXCEPT !.pc = "returned", !.result = h.result]
    /\ UNCHANGED <<jobs, fs, cmd, verdict, proc, worker, env, matcher, hist, batch>>

DualServiceFs ==
    [files |-> {"in/v.mkv", "in/lat.mkv"},
     dirs |-> {".", "in", "out"},
     readonly |-> {}]

DualServiceJobs ==
    { DualVideoRemuxJob(vp, vs, out, ao, 0, TRUE, isa, TRUE, FALSE, <<>>, <<>>) :
        vp \in {"in/v.mkv", "in/missing.mkv"},
        vs \in {"in/lat.mkv", "in/./v.mkv", "in/missing.mkv"},
        out \in {"out/o.mkv", "new/o.mkv"},
        ao \in AudioOffsets, isa \in BOOLEAN }

DualInit ==
    /\ jobs = [k \in JobKinds |-> NewJobState]
    /\ job \in DualServiceJobs
    /\ fs = DualServiceFs
    /\ cmd = <<>>
    /\ verdict = None
    /\ svc = [pc |-> "idle", result |-> NoResult]
    /\ proc = [state |-> "none", lines |-> 0, returncode |-> 0, produced |-> 0]
    /\ worker = [pc |-> "idle", is_cancelled |-> FALSE, progress |-> 0,
                 finished |-> None]
    /\ env \in [tool_installed : BOOLEAN, progress_on : {"stderr"}]
    /\ hist = [cancelled_while_running |-> FALSE]
    /\ batch = NoBatch
    /\ matcher = NoMatcher

DualNext ==
    \/ DualCall
    \/ DualValidate
    \/ DualStart
    \/ DualBuildCommand
    \/ DualExecute

SpecDual == DualInit /\ [][DualNext]_vars

\* The job's reason is the runner's message for a nonzero exit code.
ReasonHasExitCode ==
    /\ job.error_message /= None
    /\ job.error_message[1] = "El proceso fallo con codigo "
    /\ job.error_message[2] \in ExitCodes \ {0}

(* C20: remux_dual runs validate -> job.start() -> build command -> run -> *)
(* complete/fail: when it has returned for a job that passes validation,   *)
(* the mux tool has run, and either (exit code 0) the job is Completed     *)
(* with progress 100 and the result is a success, or (nonzero exit code)   *)
(* the job is Failed with the exit code in the reason.                     *)
C20_DualRunsToCompletion ==
    (svc.pc = "returned" /\ validate_job(job, fs) = None) =>
        \/ /\ job.status = "COMPLETED"
           /\ job.progress = 100
           /\ svc.result.success
        \/ /\ job.status = "FAILED"
           /\ ~svc.result.success
           /\ ReasonHasExitCode

----------------------------------------------------------------------------
(* C21: when the mux tool cannot be found or executed, a remux attempt is  *)
(* refused up front: the job is never moved to Running (its start time     *)
(* stays unset) and the unavailability never shows up as the launch        *)
(* failure of a job that was already started.                              *)
C21_ToolUnavailableRefusedUpFront ==
    ~env.tool_installed =>
        /\ job.status /= "RUNNING"
        /\ job.started_at = None
        /\ svc.result /= ExecuteExcept(LaunchError)

----------------------------------------------------------------------------
(* C22: every invocation of the batch progress callback made by            *)
(* process_episodes carries the number of the episode whose job is         *)
(* executing and the percent the runner just reported, unchanged: the      *)
(* callback's arguments change only in a step in which the runner reads a  *)
(* line for the current episode's job, and after a step that leaves the    *)
(* runner reading, once the tool has written a progress line, they are     *)
(* that episode's number and the tool's last percent.                      *)
C22_BatchTickIsRunnerTick ==
    [][/\ batch'.last_progress /= batch.last_progress
            => /\ batch.pc = "remux" /\ svc.pc = "reading"
               /\ proc'.lines = proc.lines + 1
               /\ job.video_file = EpisodeVideo(batch.ep_num)
               /\ batch'.last_progress = <<batch.ep_num, proc'.produced>>
       /\ (batch'.pc = "remux" /\ svc'.pc = "reading" /\ proc'.produced /= 0)
            => batch'.last_progress = <<batch'.ep_num, proc'.produced>>]_vars

\* The runner reads for the second episode and the batch callback holds
\* that episode's tick, after the first episode's job has been recorded.
C22_Witness ==
    /\ batch.pc = "remux" /\ svc.pc = "reading"
    /\ Len(batch.results) = 1
    /\ batch.ep_num = 2
    /\ proc.produced = 50
    /\ batch.last_progress = <<2, 50>>

----------------------------------------------------------------------------
(* SpecCreateJob: _create_job_from_episode applied to an episode drawn     *)
(* from a bounded set.                                                     *)

MaxEpisodeFiles == 2

\* The first n files of one kind of an episode.
EpisodeFiles(kind, n) == [i \in 1..n |-> "in/" \o kind \o ToString(i)]

CreateEpisodes ==
    { Episode(number, video_file, EpisodeFiles("audio", na), EpisodeFiles("sub", ns), EpisodeFiles("forced", nf)) :
        number \in {3, 12}, video_file \in {None, "in/ep.mkv"},
        na \in 0..MaxEpisodeFiles, ns \in 0..MaxEpisodeFiles,
        nf \in 0..MaxEpisodeFiles }

CreateJobInit ==
    /\ jobs = [k \in JobKinds |-> NewJobState]
    /\ job = None
    /\ fs = ValidateFs
    /\ cmd = <<>>
    /\ verdict = None
    /\ svc = [pc |-> "idle", result |-> NoResult]
    /\ proc = [state |-> "none", lines |-> 0, returncode |-> 0, produced |-> 0]
    /\ worker = [pc |-> "idle", is_cancelled |-> FALSE, progress |-> 0,
                 finished |-> None]
    /\ env = [tool_installed |-> TRUE, progress_on |-> "stderr"]
    /\ hist = [cancelled_while_running |-> FALSE]
    /\ matcher = NoMatcher
    /\ \E episode \in CreateEpisodes, pattern \in OutputPatterns,
          ao \in AudioOffsets, so \in SubtitleOffsets :
          batch = [pc |-> "create", episode |-> episode,
                   output_directory |-> "out", output_pattern |-> pattern,
                   audio_offset_ms |-> ao, subtitle_offset_ms |-> so]

\* job = self._create_job_from_episode(episode, ...): a job, None, or the
\* exception of format().
CreateJob ==
    /\ batch.pc = "create"
    /\ LET created == create_job_from_episode(
                          batch.episode, batch.output_directory,
                          batch.output_pattern, batch.audio_offset_ms,
                          batch.subtitle_offset_ms)
       IN IF created.raised
          THEN /\ batch' = [batch EXCEPT !.pc = "raised"]
               /\ job' = job
          ELSE IF created.none
          THEN /\ batch' = [batch EXCEPT !.pc = "none"]
               /\ job' = job
          ELSE /\ batch' = [batch EXCEPT !.pc = "created"]
               /\ job' = created.job
    /\ UNCHANGED <<jobs, fs, cmd, verdict, svc, proc, worker, env, matcher, hist>>

CreateJobNext == CreateJob

SpecCreateJob == CreateJobInit /\ [][CreateJobNext]_vars

\* The number of regular subtitle files of the episode.
Regular == Len(batch.episode.subtitle_files)

(* C23: the job built for a complete episode has one audio track per audio *)
(* file in file order, each with the batch audio offset and exactly the    *)
(* first marked default; one subtitle track per regular subtitle file in   *)
(* order, each with the batch subtitle offset and exactly the first marked *)
(* default; then one track per forced-subtitle file, after all regular     *)
(* ones, marked forced and never default.                                  *)
C23_TracksFollowEpisodeFiles ==
    batch.pc = "created" =>
        /\ Len(job.audio_tracks) = Len(batch.episode.audio_files)
        /\ \A i \in 1..Len(job.audio_tracks) :
              /\ job.audio_tracks[i].file_path = batch.episode.audio_files[i]
              /\ job.audio_tracks[i].type = "AUDIO"
              /\ job.audio_tracks[i].offset_ms = batch.audio_offset_ms
              /\ job.audio_tracks[i].is_default = (i = 1)
        /\ Len(job.subtitle_tracks)
             = Regular + Len(batch.episode.forced_subtitle_files)
        /\ \A i \in 1..Regular :
              /\ job.subtitle_tracks[i].file_path = batch.episode.subtitle_files[i]
              /\ job.subtitle_tracks[i].offset_ms = batch.subtitle_offset_ms
              /\ job.subtitle_tracks[i].is_default = (i = 1)
              /\ ~job.subtitle_tracks[i].is_forced
        /\ \A i \in 1..Len(batch.episode.forced_subtitle_files) :
              /\ job.subtitle_tracks[Regular + i].file_path
                   = batch.episode.forced_subtitle_files[i]
              /\ job.subtitle_tracks[Regular + i].is_forced
              /\ ~job.subtitle_tracks[Regular + i].is_default

\* A job built from two audio, two regular and two forced subtitle files
\* with offsets that are not 0.
C23_Witness ==
    /\ batch.pc = "created"
    /\ Len(job.audio_tracks) = 2
    /\ Len(job.subtitle_tracks) = 4
    /\ job.subtitle_tracks[4].is_forced
    /\ batch.audio_offset_ms < 0
    /\ batch.subtitle_offset_ms /= 0

(* C29: every job the batch builds from an episode passes the duplicate    *)
(* track id check: the ids of its audio list are pairwise distinct and the *)
(* ids of its subtitle list (regular followed by forced) are pairwise      *)
(* distinct, for any numbers of files, two or more forced files included.  *)
C29_BuiltIdsAreDistinct ==
    batch.pc = "created" =>
        /\ \A i, k \in 1..Len(job.audio_tracks) :
              i /= k => job.audio_tracks[i].id /= job.audio_tracks[k].id
        /\ \A i, k \in 1..Len(job.subtitle_tracks) :
              i /= k => job.subtitle_tracks[i].id /= job.subtitle_tracks[k].id
        /\ validate_tracks(job.audio_tracks) /= DuplicateError
        /\ validate_tracks(job.subtitle_tracks) /= DuplicateError

\* A job built from two regular and two forced subtitle files.
C29_Witness ==
    /\ batch.pc = "created"
    /\ Len(batch.episode.subtitle_files) = 2
    /\ Len(batch.episode.forced_subtitle_files) = 2
    /\ Len(job.subtitle_tracks) = 4

----------------------------------------------------------------------------
(* BatchResult.success_rate.  The quotient of two integers is kept as the  *)
(* pair <<numerator, denominator>>; a division by zero raises.             *)

Divide(a, b) ==
    IF b = 0 THEN [raised |-> TRUE, value |-> <<0, 0>>]
    ELSE [raised |-> FALSE, value |-> <<a, b>>]

\* A rate without the guard for an empty batch.
success_rate_unguarded(r) == Divide(r.successful, r.total_episodes)

success_rate(r) ==
    IF r.total_episodes = 0 THEN [raised |-> FALSE, value |-> <<0, 1>>]
    ELSE Divide(r.successful, r.total_episodes)

(* C24: success_rate is 0.0 when total_episodes = 0, with no division      *)
(* error, and successful / total_episodes otherwise; for every BatchResult *)
(* the batch returns it lies between 0 and 1 inclusive.                    *)
C24_SuccessRateInUnitInterval ==
    batch.pc = "returned" =>
        LET rate == success_rate(batch.ret) IN
        /\ ~rate.raised
        /\ batch.ret.total_episodes = 0 => rate.value[1] = 0
        /\ batch.ret.total_episodes /= 0
             => rate.value = <<batch.ret.successful, batch.ret.total_episodes>>
        /\ rate.value[2] > 0
        /\ 0 <= rate.value[1]
        /\ rate.value[1] <= rate.value[2]

\* A returned batch in which some but not all episodes succeeded.
C24_Witness ==
    /\ batch.pc = "returned"
    /\ batch.ret.successful > 0
    /\ batch.ret.successful < batch.ret.total_episodes
    /\ success_rate(batch.ret).value = <<batch.ret.successful, batch.ret.total_episodes>>

----------------------------------------------------------------------------
(* core/services/batch_service.py: BatchService.process_directory, from    *)
(* the dictionary scan_directory returned.                                 *)

\* Lines 100-128: the early return for an empty scan, the filter, the mkdir.
DirBegin ==
    /\ batch.pc = "dir_called"
    /\ LET complete_episodes == filter_complete_episodes(batch.episodes)
           made == Mkdir(fs, batch.output_directory)
       IN IF DOMAIN batch.episodes = {}
          THEN /\ batch' = [batch EXCEPT
                              !.pc = "returned",
                              !.ret = BatchResult(0, 0, 0, 0, <<>>)]
               /\ fs' = fs
          ELSE /\ fs' = made.fs
               /\ batch' = [batch EXCEPT
                              !.pc = IF made.ok THEN "dir_loop" ELSE "raised",
                              !.complete_episodes = complete_episodes,
                              !.queue = Sorted(complete_episodes)]
    /\ UNCHANGED <<jobs, job, cmd, verdict, svc, proc, worker, env, matcher, hist>>

\* Lines 130-165: the tick that opens an episode, its job (or the skipped
\* entry), the call of remux.  The caller's callback may raise.
DirCreateJob ==
    /\ batch.pc = "dir_loop"
    /\ batch.queue /= <<>>
    /\ \E raises \in BOOLEAN :
       LET ep_num == Head(batch.queue)
           created == create_job_from_episode(
                          batch.episodes[ep_num], batch.output_directory,
                          batch.output_pattern, batch.audio_offset_ms,
                          batch.subtitle_offset_ms)
       IN IF raises
          THEN /\ batch' = [batch EXCEPT !.pc = "raised", !.ep_num = ep_num]
               /\ UNCHANGED <<job, svc, proc>>
          ELSE IF created.raised
          THEN /\ batch' = [batch EXCEPT !.pc = "raised", !.ep_num = ep_num,
                                         !.last_progress = <<ep_num, 0>>,
                                         !.attempted = Append(@, ep_num)]
               /\ UNCHANGED <<job, svc, proc>>
          ELSE IF created.none
          THEN /\ batch' = [batch EXCEPT
                              !.queue = Tail(@), !.ep_num = ep_num,
                              !.last_progress = <<ep_num, 0>>,
                              !.skipped = @ + 1,
                              !.results = Append(@, [episode |-> ep_num,
                                                     success |-> FALSE,
                                                     skipped |-> TRUE,
                                                     error |-> "Sin archivo de video"])]
               /\ UNCHANGED <<job, svc, proc>>
          ELSE /\ batch' = [batch EXCEPT !.pc = "dir_remux", !.queue = Tail(@),
                                         !.ep_num = ep_num,
                                         !.last_progress = <<ep_num, 0>>,
                                         !.attempted = Append(@, ep_num)]
               /\ job' = created.job
               /\ svc' = [pc |-> "called", result |-> NoResult]
               /\ proc' = [state |-> "none", lines |-> 0, returncode |-> 0, produced |-> 0]
    /\ UNCHANGED <<jobs, fs, cmd, verdict, worker, env, matcher, hist>>

\* Lines 167-189: the tallies, the entry of the result list, the tick that
\* closes the episode.
DirRecord ==
    /\ batch.pc = "dir_remux"
    /\ svc.pc \in {"returned", "raised"}
    /\ \E raises \in BOOLEAN :
       LET next_pc == IF raises THEN "raised" ELSE "dir_loop"
           tick == IF raises THEN batch.last_progress ELSE <<batch.ep_num, 100>>
       IN IF svc.pc = "raised"
          THEN batch' = [batch EXCEPT !.pc = "raised"]
          ELSE IF svc.result.success
          THEN batch' = [batch EXCEPT
                           !.pc = next_pc,
                           !.successful = @ + 1,
                           !.last_progress = tick,
                           !.results = Append(@, [episode |-> batch.ep_num,
                                                  success |-> TRUE,
                                                  output |-> svc.result.output_file])]
          ELSE batch' = [batch EXCEPT
                           !.pc = next_pc,
                           !.failed = @ + 1,
                           !.last_progress = tick,
                           !.results = Append(@, [episode |-> batch.ep_num,
                                                  success |-> FALSE,
                                                  error |-> svc.result.error_message])]
    /\ svc' = [svc EXCEPT !.pc = "idle"]
    /\ UNCHANGED <<jobs, job, fs, cmd, verdict, proc, worker, env, matcher, hist>>

\* Lines 191-216: the loop is over, the BatchResult is returned.
DirReturn ==
    /\ batch.pc = "dir_loop"
    /\ batch.queue = <<>>
    /\ batch' = [batch EXCEPT
                   !.pc = "returned",
                   !.ret = BatchResult(Cardinality(batch.complete_episodes),
                                       batch.successful, batch.failed,
                                       batch.skipped, batch.results)]
    /\ UNCHANGED <<jobs, job, fs, cmd, verdict, svc, proc, worker, env, matcher, hist>>

MaxTallyEpisodes == 2

\* The dictionaries handed to process_episodes or returned by
\* scan_directory: any of the episodes 1..MaxTallyEpisodes, any of them
\* without its video file.
TallyEpisodes ==
    { [n \in present |->
          Episode(n, IF n \in missing THEN None ELSE EpisodeVideo(n),
                  << EpisodeAudio(n) >>, <<>>, <<>>)] :
        present \in SUBSET (1..MaxTallyEpisodes),
        missing \in SUBSET (1..MaxTallyEpisodes) }

TallyInit ==
    /\ jobs = [k \in JobKinds |-> NewJobState]
    /\ job = NewJobState
    /\ fs = BatchFs
    /\ cmd = <<>>
    /\ verdict = None
    /\ svc = [pc |-> "idle", result |-> NoResult]
    /\ proc = [state |-> "none", lines |-> 0, returncode |-> 0, produced |-> 0]
    /\ worker = [pc |-> "idle", is_cancelled |-> FALSE, progress |-> 0,
                 finished |-> None]
    /\ env \in [tool_installed : BOOLEAN, progress_on : {"stderr"}]
    /\ hist = [cancelled_while_running |-> FALSE]
    /\ matcher = NoMatcher
    /\ \E episodes \in TallyEpisodes, pattern \in OutputPatterns,
          entry \in {"called", "dir_called"} :
          batch = [pc |-> entry,
                   episodes |-> episodes,
                   output_directory |-> "out",
                   output_pattern |-> pattern,
                   audio_offset_ms |-> 0,
                   subtitle_offset_ms |-> 0,
                   complete_episodes |-> {},
                   queue |-> <<>>,
                   ep_num |-> 0,
                   results |-> <<>>,
                   successful |-> 0,
                   failed |-> 0,
                   skipped |-> 0,
                   last_progress |-> <<0, 0>>,
                   attempted |-> <<>>,
                   ret |-> NoResult]

TallyNext ==
    \/ BatchBegin
    \/ BatchCreateJob
    \/ BatchRecord
    \/ BatchReturn
    \/ DirBegin
    \/ DirCreateJob
    \/ DirRecord
    \/ DirReturn
    \/ SvcNext

SpecTally == TallyInit /\ [][TallyNext]_vars

\* The entries of a result list that satisfy P.
CountEntries(results, P(_)) ==
    Cardinality({ i \in 1..Len(results) : P(results[i]) })

IsSkipped(entry) == "skipped" \in DOMAIN entry /\ entry.skipped

(* C26: on return of process_episodes and of process_directory the tallies *)
(* account for the result list: successful is the number of entries with   *)
(* success true, failed the number of non-skipped entries with success     *)
(* false, skipped the number of skipped entries, their sum is              *)
(* len(results), and successful + failed = total_episodes.                 *)
C26_TalliesAccountForResults ==
    batch.pc = "returned" =>
        LET r == batch.ret IN
        /\ r.successful = CountEntries(r.results, LAMBDA e : e.success)
        /\ r.failed = CountEntries(r.results,
                                   LAMBDA e : ~e.success /\ ~IsSkipped(e))
        /\ r.skipped = CountEntries(r.results, IsSkipped)
        /\ r.successful + r.failed + r.skipped = Len(r.results)
        /\ r.successful + r.failed = r.total_episodes

\* process_directory returned after one episode succeeded and one failed.
C26_Witness ==
    /\ batch.pc = "returned"
    /\ batch.last_progress[2] = 100
    /\ batch.ret.successful = 1
    /\ batch.ret.failed = 1
    /\ Len(batch.ret.results) = 2

----------------------------------------------------------------------------
\* The ValidationError validate_remux_job raises for the job, or None.
ValidationFailure == validate_remux_job(job, ValidateFs).error

(* C25: if validation of a job fails, remux never starts the job and never *)
(* builds or launches the mux command: the job goes from Pending to Failed *)
(* without being Running, its start time stays unset, and the returned     *)
(* failure result carries the validation reason.                           *)
C25_InvalidJobNeverStarts ==
    ValidationFailure /= None =>
        /\ job.status \in {"PENDING", "FAILED"}
        /\ job.started_at = None
        /\ cmd = <<>>
        /\ proc.state = "none"
        /\ (svc.pc = "returned" /\ svc.result.error_message /= UnexpectedError)
             => /\ job.status = "FAILED"
                /\ job.error_message = <<"Error de validacion: ", ValidationFailure>>
                /\ svc.result = RemuxResult(FALSE, None, ValidationFailure)

\* remux returned the validation failure of a job whose video is missing.
C25_Witness ==
    /\ svc.pc = "returned"
    /\ job.video_file = "in/missing.mkv"
    /\ job.status = "FAILED"
    /\ svc.result.error_message = ValidationFailure

----------------------------------------------------------------------------
(* SpecRepeat: RemuxService.remux called again and again on the same job   *)
(* object, each call after the one before has returned.                    *)

\* remux(job) is called: the first time, or again on the job as the
\* earlier call left it.
RemuxCall ==
    /\ svc.pc \in {"idle", "returned"}
    /\ svc' = [pc |-> "called", result |-> NoResult]
    /\ UNCHANGED <<jobs, job, fs, cmd, verdict, proc, worker, env, matcher, hist, batch>>

RepeatNext ==
    \/ RemuxCall
    \/ SvcNext

SpecRepeat == RemuxInit /\ [][RepeatNext]_vars

(* C30: across any number of remux calls on the same job object the mux    *)
(* tool is launched at most once: a call on a job that is already          *)
(* Completed or Failed does not move it back to Running, a Completed job   *)
(* stays Completed, and no subprocess is launched after an earlier one of  *)
(* the job has exited.                                                     *)
C30_LaunchedAtMostOnce ==
    [][/\ job.status = "COMPLETED" => job'.status = "COMPLETED"
       /\ job.status \in {"COMPLETED", "FAILED"} => job'.status /= "RUNNING"
       /\ proc.state = "exited" => proc'.state /= "running"]_vars

----------------------------------------------------------------------------
(* C28: whenever execute() has returned a result the subprocess it         *)
(* launched has exited, also when the progress callback raised in the      *)
(* middle of the run, so that no subprocess of an earlier job is alive     *)
(* when the next one is started.                                           *)
C28_ReturnedMeansExited ==
    svc.pc \in {"executed", "returned"} => proc.state /= "running"

----------------------------------------------------------------------------
(* SpecPipes: BaseEngine.execute and its subprocess, with the two pipes.   *)
(* Popen is given stdout=PIPE and stderr=PIPE; a pipe holds PipeCapacity   *)
(* lines, a write to a full pipe blocks the writer, a read from an empty   *)
(* pipe blocks the reader until a line or the end of the stream arrives.   *)
(* The tool writes at most MaxOutput lines, on the stream it chooses line  *)
(* by line, then exits.                                                    *)

PipeCapacity == 2

MaxOutput == 4

\* What the tool does next.
ToolSteps == {"stdout", "stderr", "exit"}

PipesInit ==
    /\ jobs = [k \in JobKinds |-> NewJobState]
    /\ job \in { j \in ServiceJobs : validate_remux_job(j, ValidateFs).error = None }
    /\ fs = ValidateFs
    /\ cmd = <<>>
    /\ verdict = None
    /\ svc = [pc |-> "execute", result |-> NoResult]
    /\ proc = [state |-> "none", next |-> "exit", written |-> 0,
               stdout_pipe |-> 0, stderr_pipe |-> 0, returncode |-> 0]
    /\ worker = [pc |-> "idle", is_cancelled |-> FALSE, progress |-> 0,
                 finished |-> None]
    /\ env = [tool_installed |-> TRUE, progress_on |-> "stderr"]
    /\ hist = [cancelled_while_running |-> FALSE]
    /\ batch = NoBatch
    /\ matcher = NoMatcher

\* subprocess.Popen(command, stdout=PIPE, stderr=PIPE)
PipesPopen ==
    /\ svc.pc = "execute"
    /\ cmd' = build_command(job, fs)
    /\ svc' = [svc EXCEPT !.pc = "reading"]
    /\ \E next \in ToolSteps :
          proc' = [proc EXCEPT !.state = "running", !.next = next]
    /\ UNCHANGED <<jobs, job, fs, verdict, worker, env, matcher, hist, batch>>

\* The tool writes one line on the stream it chose, if the pipe has room,
\* and chooses what to do after it.
ToolWrite ==
    /\ proc.state = "running"
    /\ proc.next \in {"stdout", "stderr"}
    /\ proc.written < MaxOutput
    /\ IF proc.next = "stdout"
       THEN proc.stdout_pipe < PipeCapacity
       ELSE proc.stderr_pipe < PipeCapacity
    /\ \E next \in ToolSteps :
          proc' = [proc EXCEPT
                     !.written = @ + 1,
                     !.stdout_pipe = IF proc.next = "stdout" THEN @ + 1 ELSE @,
                     !.stderr_pipe = IF proc.next = "stderr" THEN @ + 1 ELSE @,
                     !.next = IF proc.written + 1 = MaxOutput THEN "exit" ELSE next]
    /\ UNCHANGED <<jobs, job, fs, cmd, verdict, svc, worker, env, matcher, hist, batch>>

\* The tool exits: both streams reach their end.
ToolExit ==
    /\ proc.state = "running"
    /\ proc.next = "exit"
    /\ \E rc \in ExitCodes :
          proc' = [proc EXCEPT !.state = "exited", !.returncode = rc]
    /\ UNCHANGED <<jobs, job, fs, cmd, verdict, svc, worker, env, matcher, hist, batch>>

\* One turn of `for line in process.stderr`: a line is taken off stderr.
\* Nothing ever reads process.stdout.
PipesReadLine ==
    /\ svc.pc = "reading"
    /\ proc.stderr_pipe > 0
    /\ proc' = [proc EXCEPT !.stderr_pipe = @ - 1]
    /\ UNCHANGED <<jobs, job, fs, cmd, verdict, svc, worker, env, matcher, hist, batch>>

\* stderr is at its end: the loop is over, process.wait() returns, the
\* result is built.
PipesWait ==
    /\ svc.pc = "reading"
    /\ proc.stderr_pipe = 0
    /\ proc.state = "exited"
    /\ svc' = [svc EXCEPT !.pc = "executed",
                          !.result = ExecuteResult(proc.returncode, cmd)]
    /\ UNCHANGED <<jobs, job, fs, cmd, verdict, proc, worker, env, matcher, hist, batch>>

PipesNext ==
    \/ PipesPopen
    \/ ToolWrite
    \/ ToolExit
    \/ PipesReadLine
    \/ PipesWait

SpecPipes == PipesInit /\ [][PipesNext]_vars

\* The runner waits for a line or the end of stderr.
RunnerWaitsForStderr ==
    svc.pc = "reading" /\ proc.stderr_pipe = 0 /\ proc.state = "running"

\* The tool is blocked in a write to the full stdout pipe.
ToolBlockedOnStdout ==
    proc.state = "running" /\ proc.next = "stdout"
    /\ proc.stdout_pipe = PipeCapacity

(* C27: execute() always returns, whatever amount of output the tool       *)
(* writes on stdout and on stderr: there is no reachable state in which    *)
(* the runner waits for stderr while the subprocess is blocked writing to  *)
(* a full, unread stdout pipe.                                             *)
C27_NoPipeDeadlock == ~(RunnerWaitsForStderr /\ ToolBlockedOnStdout)

====
